---- MODULE Spec2Model ----
(***************************************************************************)
(* Snowball Blitz (docs/js/main.js, docs/js/ui.js): the projectile and     *)
(* target registries, the collision routing, the projectile lifecycle and  *)
(* the session state machine, as one state machine.                        *)
(*                                                                         *)
(* Time is counted in units of 10 ms, so the frame-delta cap of 0.05 s is  *)
(* 5 units.  The session time limit (60 s in the source) and the maximum   *)
(* projectile age (8 s in the source) are scaled down to a few units so    *)
(* that a timeout and a lifetime removal are reached in a handful of       *)
(* frames; they are bounds of the model.  The 9 target placements of the   *)
(* source are scaled down to NumTargets.                                   *)
(*                                                                         *)
(* JavaScript arrays are 0-based; the sequences here are 1-based, so the   *)
(* source's index i is i + 1 here.                                         *)
(***************************************************************************)
EXTENDS Integers, Sequences, FiniteSets, TLC

(* ------------------------------ bounds --------------------------------- *)
\* main.js:58 TIME_LIMIT_SEC = 60 (seconds); here in 10 ms units, scaled down.
TIME_LIMIT_SEC == 3
\* main.js:48 projectileMaxAgeSec = 8 (seconds); here in 10 ms units, scaled down.
projectileMaxAgeSec == 2
\* main.js:873-886: the source places 9 targets; the model places NumTargets.
NumTargets == 2
\* main.js:804-808: the source builds 3 platforms; the model builds NumPlatforms.
NumPlatforms == 1
\* cannon-es hands out body ids from a counter that never stops; the model
\* stops allocating at MaxBodyId.
MaxBodyId == 6
\* at most this many begin-contact notifications are delivered in one step.
MaxContactsPerStep == 2
\* a preSolve notification carries at most this many contact equations.
MaxEquations == 1
\* main.js:84, 128: the predicted line has at most 80 points by default; here
\* DefaultMaxPoints.
DefaultMaxPoints == 8
\* SpecLaunch stops allocating body ids at MaxLaunchBodyId and keeps at most
\* MaxInFlight projectiles in flight.
MaxLaunchBodyId == 10
MaxInFlight == 2

(* -------------------------- program constants -------------------------- *)
SCORE_PER_TARGET == 50
CG_PROJECTILE == 1
CG_TARGET == 2
CG_WORLD == 4
\* main.js:1541: Math.min(clock.getDelta(), 0.05), 0.05 s = 5 units.
MAX_DT == 5
\* main.js:1468: p.body.position.y < -10
FailsafeY == -10

\* clock.getDelta() values the model draws from (10 ms units): 0 is the first
\* frame (THREE.Clock starts on its first getDelta), 8 is a stalled frame.
RawDeltas == {0, 1, 5, 8}
\* body heights (p.body.position.y) the physics step may leave a projectile at:
\* just below the failsafe height, and exactly at it.
YValues == {FailsafeY - 1, FailsafeY}

VARIABLES
    gameState,            \* main.js:61  'playing' | 'ended'
    timeRemainingSec,     \* main.js:59
    score,                \* ui.js:29
    endOverlay,           \* ui.js:127-133: what the end overlay shows, or NoEnd
    fireDisabled,         \* fireButtonEl.disabled
    projectiles,          \* main.js:45  sequence of [id, age]
    projectileByBodyId,   \* main.js:72  body id -> projectile record (its body id)
    projectilesToRemove,  \* main.js:77  set of body ids
    targets,              \* main.js:52  sequence of [id, alive]
    targetByBodyId,       \* main.js:73  body id -> target record (its body id)
    platforms,            \* main.js:51  sequence of body ids
    worldBodyIds,         \* main.js:74
    bodies,               \* world.bodies: body id -> [group, mask]
    bodyVelocity,         \* main.js:1411-1415: projectile body id -> the body.velocity fireProjectile set
    worldGravity,         \* main.js:606, 287: world.gravity, <<>> while there is no world
    nextBodyId,           \* cannon-es Body.idCounter
    collaborators,        \* main.js:416-455: which of scene, camera, player, world exist
    gameConfig,           \* main.js:131 the configuration loadGameConfig() fetched
    params,               \* main.js:47, 50, 82-84, 135-137: the configurable parameters
    aim,                  \* main.js:1281-1288: the aim direction aimYaw and aimPitch give
    trajectoryPoints,     \* main.js:81  the predicted points, reused by each update
    out,                  \* UI notifications emitted by the last handler
    pc,                   \* position of animate(): "idle" | "step" | "timer"
    dt,                   \* the running frame's clamped delta
    stepBodies,           \* the bodies the running physics step works on
    contactsDelivered,    \* begin-contact notifications delivered in this step
    last,                 \* the last handler that ran and its arguments
    frame,                \* the session as the running (or last) frame found it
    pierced,              \* projectiles that destroyed a target in the running (or last) step
    destroyed,            \* target destructions since the last reset
    contactEquations      \* the constraint list the last preSolve notification carried, as the handler left it

progVars == <<gameState, timeRemainingSec, score, endOverlay, fireDisabled,
              projectiles, projectileByBodyId, projectilesToRemove, targets,
              targetByBodyId, platforms, worldBodyIds, bodies, bodyVelocity,
              worldGravity, nextBodyId, collaborators, gameConfig, params, aim, trajectoryPoints, out>>
vars == <<progVars, pc, dt, stepBodies, contactsDelivered, last, frame, pierced, destroyed,
          contactEquations>>

NoEnd == [reason |-> "none", finalScore |-> 0]
\* main.js:1372: !scene || !world || !camera || !player
Collaborators == {"scene", "world", "camera", "player"}
EmptyMap == [x \in {} |-> 0]

\* The program's state as one value, so that handlers compose as functions.
State ==
    [gameState |-> gameState, timeRemainingSec |-> timeRemainingSec,
     score |-> score, endOverlay |-> endOverlay, fireDisabled |-> fireDisabled,
     projectiles |-> projectiles, projectileByBodyId |-> projectileByBodyId,
     projectilesToRemove |-> projectilesToRemove, targets |-> targets,
     targetByBodyId |-> targetByBodyId, platforms |-> platforms,
     worldBodyIds |-> worldBodyIds, bodies |-> bodies,
     bodyVelocity |-> bodyVelocity, worldGravity |-> worldGravity,
     nextBodyId |-> nextBodyId, collaborators |-> collaborators,
     gameConfig |-> gameConfig, params |-> params, aim |-> aim,
     trajectoryPoints |-> trajectoryPoints,
     out |-> out]

Apply(s) ==
    /\ gameState' = s.gameState
    /\ timeRemainingSec' = s.timeRemainingSec
    /\ score' = s.score
    /\ endOverlay' = s.endOverlay
    /\ fireDisabled' = s.fireDisabled
    /\ projectiles' = s.projectiles
    /\ projectileByBodyId' = s.projectileByBodyId
    /\ projectilesToRemove' = s.projectilesToRemove
    /\ targets' = s.targets
    /\ targetByBodyId' = s.targetByBodyId
    /\ platforms' = s.platforms
    /\ worldBodyIds' = s.worldBodyIds
    /\ bodies' = s.bodies
    /\ bodyVelocity' = s.bodyVelocity
    /\ worldGravity' = s.worldGravity
    /\ nextBodyId' = s.nextBodyId
    /\ collaborators' = s.collaborators
    /\ gameConfig' = s.gameConfig
    /\ params' = s.params
    /\ aim' = s.aim
    /\ trajectoryPoints' = s.trajectoryPoints
    /\ out' = s.out

(* ------------------------------ helpers -------------------------------- *)
MapSet(m, k, v) == [x \in (DOMAIN m) \cup {k} |-> IF x = k THEN v ELSE m[x]]
MapDel(m, k) == [x \in (DOMAIN m) \ {k} |-> m[x]]
RemoveAt(seq, i) == [j \in 1..(Len(seq) - 1) |-> IF j < i THEN seq[j] ELSE seq[j + 1]]
\* mutant: the raw delta is used unclamped
Min_NoClamp(a, b) == a
Min(a, b) == IF a < b THEN a ELSE b

RECURSIVE BitAnd(_, _)
BitAnd(a, b) ==
    IF a = 0 \/ b = 0 THEN 0
    ELSE (IF a % 2 = 1 /\ b % 2 = 1 THEN 1 ELSE 0) + 2 * BitAnd(a \div 2, b \div 2)

\* world.addBody(body) of a new CANNON.Body: the next id, with its filter.
addBody(s, group, mask) ==
    [s EXCEPT !.bodies = MapSet(@, s.nextBodyId, [group |-> group, mask |-> mask]),
              !.nextBodyId = @ + 1]
\* world.removeBody(body); the body's velocity goes with the body
removeBody(s, id) ==
    [s EXCEPT !.bodies = MapDel(@, id), !.bodyVelocity = MapDel(@, id)]

\* mutant: the win check counts the entries of targets (destroyed ones stay in
\* the array) instead of the alive ones
remainingAlive_CountsAll(s) == Len(s.targets)
\* targets.reduce((n, t) => n + (t.alive ? 1 : 0), 0)
remainingAlive(s) == Cardinality({i \in 1..Len(s.targets) : s.targets[i].alive})

(* ------------------------------ ui.js ----------------------------------- *)
setScore(s, value) == [s EXCEPT !.score = value]
\* mutant: the score is overwritten by the points instead of raised by them
addScore_Overwrites(s, delta) == setScore(s, delta)
addScore(s, delta) == setScore(s, s.score + delta)
showEnd(s, reason, finalScore) ==
    [s EXCEPT !.endOverlay = [reason |-> reason, finalScore |-> finalScore],
              !.out = Append(@, [kind |-> "showEnd", reason |-> reason, finalScore |-> finalScore])]
hideEnd(s) == [s EXCEPT !.endOverlay = NoEnd]
spawnFloatingText(s, points) ==
    [s EXCEPT !.out = Append(@, [kind |-> "floatingText", reason |-> "none", finalScore |-> points])]

(* --------------------------- session -------------------------------------- *)
\* mutant: the timer is not set to 0 on entering Ended
endGame_NoClamp(s, reason) ==
    IF s.gameState = "ended" THEN s
    ELSE LET s1 == [s EXCEPT !.gameState = "ended", !.fireDisabled = TRUE]
         IN showEnd(s1, reason, s1.score)
\* mutant: the UI is not notified on entering Ended
endGame_NoNotify(s, reason) ==
    IF s.gameState = "ended" THEN s
    ELSE [s EXCEPT !.gameState = "ended", !.timeRemainingSec = 0, !.fireDisabled = TRUE]
endGame(s, reason) ==
    IF s.gameState = "ended" THEN s
    ELSE LET s1 == [s EXCEPT !.gameState = "ended",
                             !.timeRemainingSec = 0,
                             !.fireDisabled = TRUE]
         IN showEnd(s1, reason, s1.score)

(* --------------------------- targets -------------------------------------- *)
\* mutant: the id-lookup entry of the destroyed target is kept
destroyTarget_KeepsMapEntry(s, tid) ==
    LET s1 == [s EXCEPT !.targets =
                   [i \in 1..Len(@) |-> IF @[i].id = tid THEN [@[i] EXCEPT !.alive = FALSE] ELSE @[i]]]
        s2 == addScore(spawnFloatingText(s1, SCORE_PER_TARGET), SCORE_PER_TARGET)
        s3 == removeBody(s2, tid)
    IN IF s3.gameState = "playing" /\ remainingAlive(s3) = 0
       THEN endGame(s3, "win")
       ELSE s3
\* mutant: the win check runs before the points are credited
destroyTarget_WinBeforeScore(s, tid) ==
    LET s1 == [s EXCEPT !.targets =
                   [i \in 1..Len(@) |-> IF @[i].id = tid THEN [@[i] EXCEPT !.alive = FALSE] ELSE @[i]]]
        s2 == [removeBody(s1, tid) EXCEPT !.targetByBodyId = MapDel(@, tid)]
        s3 == IF s2.gameState = "playing" /\ remainingAlive(s2) = 0
              THEN endGame(s2, "win")
              ELSE s2
    IN addScore(spawnFloatingText(s3, SCORE_PER_TARGET), SCORE_PER_TARGET)
destroyTarget(s, tid) ==
    LET s1 == [s EXCEPT !.targets =
                   [i \in 1..Len(@) |-> IF @[i].id = tid THEN [@[i] EXCEPT !.alive = FALSE] ELSE @[i]]]
        s2 == addScore(spawnFloatingText(s1, SCORE_PER_TARGET), SCORE_PER_TARGET)
        s3 == removeBody(s2, tid)
        s4 == [s3 EXCEPT !.targetByBodyId = MapDel(@, tid)]
    IN IF s4.gameState = "playing" /\ remainingAlive(s4) = 0
       THEN endGame(s4, "win")
       ELSE s4

RECURSIVE createTargetsFrom(_, _)
createTargetsFrom(s, k) ==
    IF k > NumTargets THEN s
    ELSE LET id == s.nextBodyId
             s1 == addBody(s, CG_TARGET, CG_PROJECTILE)
             s2 == [s1 EXCEPT !.targets = Append(@, [id |-> id, alive |-> TRUE]),
                              !.targetByBodyId = MapSet(@, id, id)]
         IN createTargetsFrom(s2, k + 1)
createTargets(s) == createTargetsFrom(s, 1)

RECURSIVE removeBodies(_, _)
removeBodies(s, ids) ==
    IF ids = {} THEN s
    ELSE LET id == CHOOSE x \in ids : TRUE
         IN removeBodies(removeBody(s, id), ids \ {id})

clearTargets(s) ==
    LET s1 == removeBodies(s, {s.targets[i].id : i \in 1..Len(s.targets)})
    IN [s1 EXCEPT !.targets = <<>>, !.targetByBodyId = EmptyMap]

clearPlatforms(s) ==
    LET ids == {s.platforms[i] : i \in 1..Len(s.platforms)}
        s1 == removeBodies(s, ids)
    IN [s1 EXCEPT !.worldBodyIds = @ \ ids, !.platforms = <<>>]

RECURSIVE createTieredPlatformsFrom(_, _)
createTieredPlatformsFrom(s, k) ==
    IF k > NumPlatforms THEN s
    ELSE LET id == s.nextBodyId
             s1 == addBody(s, CG_WORLD, CG_PROJECTILE)
             s2 == [s1 EXCEPT !.worldBodyIds = @ \cup {id},
                              !.platforms = Append(@, id)]
         IN createTieredPlatformsFrom(s2, k + 1)
createTieredPlatforms(s) == createTieredPlatformsFrom(s, 1)

\* mutant: only the platforms are rebuilt, the targets are kept
replacePlatformsAndTargets_PlatformsOnly(s) ==
    createTieredPlatforms(clearPlatforms(s))
replacePlatformsAndTargets(s) ==
    createTargets(createTieredPlatforms(clearPlatforms(clearTargets(s))))

(* --------------------------- collisions ----------------------------------- *)
\* mutant: a projectile that hits a target is marked for removal as well
handleProjectileContact_NoPierce(s, pid, otherId) ==
    IF otherId \in DOMAIN s.targetByBodyId
       /\ \E i \in 1..Len(s.targets) :
              s.targets[i].id = s.targetByBodyId[otherId] /\ s.targets[i].alive
    THEN [destroyTarget(s, s.targetByBodyId[otherId]) EXCEPT !.projectilesToRemove = @ \cup {pid}]
    ELSE IF otherId \in s.worldBodyIds
         THEN [s EXCEPT !.projectilesToRemove = @ \cup {pid}]
         ELSE s
\* mutant: a projectile that hits a target loses its removal mark
handleProjectileContact_PierceClearsMark(s, pid, otherId) ==
    IF otherId \in DOMAIN s.targetByBodyId
       /\ \E i \in 1..Len(s.targets) :
              s.targets[i].id = s.targetByBodyId[otherId] /\ s.targets[i].alive
    THEN [destroyTarget(s, s.targetByBodyId[otherId]) EXCEPT !.projectilesToRemove = @ \ {pid}]
    ELSE IF otherId \in s.worldBodyIds
         THEN [s EXCEPT !.projectilesToRemove = @ \cup {pid}]
         ELSE s
\* mutant: the target is looked up in the targets array, alive or not
handleProjectileContact_NoAliveCheck(s, pid, otherId) ==
    IF \E i \in 1..Len(s.targets) : s.targets[i].id = otherId
    THEN destroyTarget(s, otherId)
    ELSE IF otherId \in s.worldBodyIds
         THEN [s EXCEPT !.projectilesToRemove = @ \cup {pid}]
         ELSE s
\* mutant: any body that is not an alive target counts as world geometry
handleProjectileContact_AnyBodyIsWorld(s, pid, otherId) ==
    IF otherId \in DOMAIN s.targetByBodyId
       /\ \E i \in 1..Len(s.targets) :
              s.targets[i].id = s.targetByBodyId[otherId] /\ s.targets[i].alive
    THEN destroyTarget(s, s.targetByBodyId[otherId])
    ELSE [s EXCEPT !.projectilesToRemove = @ \cup {pid}]
handleProjectileContact(s, pid, otherId) ==
    IF otherId \in DOMAIN s.targetByBodyId
       /\ \E i \in 1..Len(s.targets) :
              s.targets[i].id = s.targetByBodyId[otherId] /\ s.targets[i].alive
    THEN destroyTarget(s, s.targetByBodyId[otherId])
    ELSE IF otherId \in s.worldBodyIds
         THEN [s EXCEPT !.projectilesToRemove = @ \cup {pid}]
         ELSE s

beginContact(s, a, b) ==
    LET projA == a \in DOMAIN s.projectileByBodyId
        projB == b \in DOMAIN s.projectileByBodyId
        s1 == IF projA THEN handleProjectileContact(s, s.projectileByBodyId[a], b) ELSE s
    IN IF projB THEN handleProjectileContact(s1, s1.projectileByBodyId[b], a) ELSE s1

\* a contact equation whose bi or bj is missing carries NoBody there
NoBody == -1

\* mutant: only the order (projectile, target) is recognised
preSolve_OneOrderOnly(s, eqs) ==
    [k \in 1..Len(eqs) |->
        LET eq == eqs[k]
            projI == eq.bi \in DOMAIN s.projectileByBodyId
            isTargetJ == eq.bj \in DOMAIN s.targetByBodyId
        IN IF eq.bi = NoBody \/ eq.bj = NoBody THEN eq
           ELSE IF projI /\ isTargetJ THEN [eq EXCEPT !.enabled = FALSE]
           ELSE eq]
\* the preSolve listener over a list of contact equations [bi, bj, enabled]
\* (the listener returns at once when the event carries no array)
preSolve(s, eqs) ==
    [k \in 1..Len(eqs) |->
        LET eq == eqs[k]
            projI == eq.bi \in DOMAIN s.projectileByBodyId
            projJ == eq.bj \in DOMAIN s.projectileByBodyId
            isTargetI == eq.bi \in DOMAIN s.targetByBodyId
            isTargetJ == eq.bj \in DOMAIN s.targetByBodyId
        IN IF eq.bi = NoBody \/ eq.bj = NoBody THEN eq
           ELSE IF ~projI /\ ~projJ THEN eq
           ELSE IF (projI /\ isTargetJ) \/ (projJ /\ isTargetI)
                THEN [eq EXCEPT !.enabled = FALSE]
                ELSE eq]

(* --------------------------- projectiles ---------------------------------- *)
\* getAimDirection(): the unit vector of aimYaw and aimPitch, in thousandths
getAimDirection(s) == s.aim

\* mutant: a fire request is refused while a projectile of age 0 is in flight
fireProjectile_Cooldown(s) ==
    IF s.gameState # "playing" THEN s
    ELSE IF s.collaborators # Collaborators THEN s
    ELSE IF \E i \in 1..Len(s.projectiles) : s.projectiles[i].age = 0 THEN s
    ELSE LET id == s.nextBodyId
             s1 == addBody(s, CG_PROJECTILE, CG_WORLD + CG_TARGET)
             dir == getAimDirection(s)
             velocity == [k \in 1..3 |-> (dir[k] * s.params.projectileSpeed) \div 1000]
         IN [s1 EXCEPT !.bodyVelocity = MapSet(@, id, velocity),
                       !.projectiles = Append(@, [id |-> id, age |-> 0]),
                       !.projectileByBodyId = MapSet(@, id, id)]
\* mutant: the projectile's mask admits other projectiles as well
fireProjectile_HitsProjectiles(s) ==
    IF s.gameState # "playing" THEN s
    ELSE IF s.collaborators # Collaborators THEN s
    ELSE LET id == s.nextBodyId
             s1 == addBody(s, CG_PROJECTILE, CG_WORLD + CG_TARGET + CG_PROJECTILE)
             dir == getAimDirection(s)
             velocity == [k \in 1..3 |-> (dir[k] * s.params.projectileSpeed) \div 1000]
         IN [s1 EXCEPT !.bodyVelocity = MapSet(@, id, velocity),
                       !.projectiles = Append(@, [id |-> id, age |-> 0]),
                       !.projectileByBodyId = MapSet(@, id, id)]
\* mutant: the session state is not checked
fireProjectile_NoStateCheck(s) ==
    IF s.collaborators # Collaborators THEN s
    ELSE LET id == s.nextBodyId
             s1 == addBody(s, CG_PROJECTILE, CG_WORLD + CG_TARGET)
             dir == getAimDirection(s)
             velocity == [k \in 1..3 |-> (dir[k] * s.params.projectileSpeed) \div 1000]
         IN [s1 EXCEPT !.bodyVelocity = MapSet(@, id, velocity),
                       !.projectiles = Append(@, [id |-> id, age |-> 0]),
                       !.projectileByBodyId = MapSet(@, id, id)]
\* mutant: the scene, world, camera and player are not checked
fireProjectile_NoCollaboratorCheck(s) ==
    IF s.gameState # "playing" THEN s
    ELSE LET id == s.nextBodyId
             s1 == addBody(s, CG_PROJECTILE, CG_WORLD + CG_TARGET)
             dir == getAimDirection(s)
             velocity == [k \in 1..3 |-> (dir[k] * s.params.projectileSpeed) \div 1000]
         IN [s1 EXCEPT !.bodyVelocity = MapSet(@, id, velocity),
                       !.projectiles = Append(@, [id |-> id, age |-> 0]),
                       !.projectileByBodyId = MapSet(@, id, id)]
fireProjectile(s) ==
    IF s.gameState # "playing" THEN s
    ELSE IF s.collaborators # Collaborators THEN s
    ELSE LET id == s.nextBodyId
             s1 == addBody(s, CG_PROJECTILE, CG_WORLD + CG_TARGET)
             dir == getAimDirection(s)
             velocity == [k \in 1..3 |-> (dir[k] * s.params.projectileSpeed) \div 1000]
         IN [s1 EXCEPT !.bodyVelocity = MapSet(@, id, velocity),
                       !.projectiles = Append(@, [id |-> id, age |-> 0]),
                       !.projectileByBodyId = MapSet(@, id, id)]

\* mutant: the id-lookup entry is not deleted
removeProjectile_KeepsMapEntry(s, idx) ==
    IF idx \notin 1..Len(s.projectiles) THEN s
    ELSE LET p == s.projectiles[idx]
             s1 == removeBody(s, p.id)
         IN [s1 EXCEPT !.projectilesToRemove = @ \ {p.id},
                       !.projectiles = RemoveAt(@, idx)]
\* mutant: the pending-removal mark is not deleted
removeProjectile_KeepsMark(s, idx) ==
    IF idx \notin 1..Len(s.projectiles) THEN s
    ELSE LET p == s.projectiles[idx]
             s1 == removeBody(s, p.id)
         IN [s1 EXCEPT !.projectileByBodyId = MapDel(@, p.id),
                       !.projectiles = RemoveAt(@, idx)]
removeProjectile(s, idx) ==
    IF idx \notin 1..Len(s.projectiles) THEN s
    ELSE LET p == s.projectiles[idx]
             s1 == removeBody(s, p.id)
         IN [s1 EXCEPT !.projectileByBodyId = MapDel(@, p.id),
                       !.projectilesToRemove = @ \ {p.id},
                       !.projectiles = RemoveAt(@, idx)]

\* mutant: a projectile is removed as soon as its age reaches the maximum
RECURSIVE updateProjectilesFrom_AgeInclusive(_, _, _, _)
updateProjectilesFrom_AgeInclusive(s, i, d, ys) ==
    IF i < 1 THEN s
    ELSE LET s1 == [s EXCEPT !.projectiles[i].age = @ + d]
             p == s1.projectiles[i]
             s2 == IF p.age >= projectileMaxAgeSec THEN removeProjectile(s1, i)
                   ELSE IF p.id \in s1.projectilesToRemove THEN removeProjectile(s1, i)
                   ELSE IF ys[p.id] < FailsafeY THEN removeProjectile(s1, i)
                   ELSE s1
         IN updateProjectilesFrom_AgeInclusive(s2, i - 1, d, ys)
\* mutant: the pending-removal set is not consulted
RECURSIVE updateProjectilesFrom_IgnoresPending(_, _, _, _)
updateProjectilesFrom_IgnoresPending(s, i, d, ys) ==
    IF i < 1 THEN s
    ELSE LET s1 == [s EXCEPT !.projectiles[i].age = @ + d]
             p == s1.projectiles[i]
             s2 == IF p.age > projectileMaxAgeSec THEN removeProjectile(s1, i)
                   ELSE IF ys[p.id] < FailsafeY THEN removeProjectile(s1, i)
                   ELSE s1
         IN updateProjectilesFrom_IgnoresPending(s2, i - 1, d, ys)
\* mutant: after a removal the loop steps over the entry before the removed one
RECURSIVE updateProjectilesFrom_SkipsAfterRemoval(_, _, _, _)
updateProjectilesFrom_SkipsAfterRemoval(s, i, d, ys) ==
    IF i < 1 THEN s
    ELSE LET s1 == [s EXCEPT !.projectiles[i].age = @ + d]
             p == s1.projectiles[i]
             removed == \/ p.age > projectileMaxAgeSec
                        \/ p.id \in s1.projectilesToRemove
                        \/ ys[p.id] < FailsafeY
         IN IF removed
            THEN updateProjectilesFrom_SkipsAfterRemoval(removeProjectile(s1, i), i - 2, d, ys)
            ELSE updateProjectilesFrom_SkipsAfterRemoval(s1, i - 1, d, ys)
\* ys[id] is the height the physics step left body id at (p.body.position.y).
RECURSIVE updateProjectilesFrom(_, _, _, _)
updateProjectilesFrom(s, i, d, ys) ==
    IF i < 1 THEN s
    ELSE LET s1 == [s EXCEPT !.projectiles[i].age = @ + d]
             p == s1.projectiles[i]
             s2 == IF p.age > projectileMaxAgeSec THEN removeProjectile(s1, i)
                   ELSE IF p.id \in s1.projectilesToRemove THEN removeProjectile(s1, i)
                   ELSE IF ys[p.id] < FailsafeY THEN removeProjectile(s1, i)
                   ELSE s1
         IN updateProjectilesFrom(s2, i - 1, d, ys)
\* mutant: the pass runs only while the session is Playing
updateProjectiles_PlayingOnly(s, d, ys) ==
    IF s.gameState # "playing" THEN s
    ELSE updateProjectilesFrom(s, Len(s.projectiles), d, ys)
updateProjectiles(s, d, ys) == updateProjectilesFrom(s, Len(s.projectiles), d, ys)

RECURSIVE removeAllProjectilesFrom(_, _)
removeAllProjectilesFrom(s, i) ==
    IF i < 1 THEN s ELSE removeAllProjectilesFrom(removeProjectile(s, i), i - 1)

\* mutant: the projectiles in flight are not removed
resetGame_KeepsProjectiles(s) ==
    LET aliveIds == {s.targets[i].id : i \in {j \in 1..Len(s.targets) : s.targets[j].alive}}
        s2 == removeBodies(s, aliveIds)
        s3 == [s2 EXCEPT !.targets = <<>>, !.targetByBodyId = EmptyMap]
        s4 == createTargets(s3)
        s5 == setScore(s4, 0)
        s6 == [s5 EXCEPT !.gameState = "playing",
                         !.timeRemainingSec = TIME_LIMIT_SEC,
                         !.fireDisabled = FALSE]
    IN hideEnd(s6)
resetGame(s) ==
    LET s1 == removeAllProjectilesFrom(s, Len(s.projectiles))
        aliveIds == {s1.targets[i].id : i \in {j \in 1..Len(s1.targets) : s1.targets[j].alive}}
        s2 == removeBodies(s1, aliveIds)
        s3 == [s2 EXCEPT !.targets = <<>>, !.targetByBodyId = EmptyMap]
        s4 == createTargets(s3)
        s5 == setScore(s4, 0)
        s6 == [s5 EXCEPT !.gameState = "playing",
                         !.timeRemainingSec = TIME_LIMIT_SEC,
                         !.fireDisabled = FALSE]
    IN hideEnd(s6)

\* mutant: the timer block does not count the alive targets
sessionTick_NoWinCheck(s, d) ==
    IF s.gameState = "playing"
    THEN LET s2 == [s EXCEPT !.timeRemainingSec = @ - d]
         IN IF s2.timeRemainingSec <= 0 THEN endGame(s2, "timeout") ELSE s2
    ELSE s
\* mutant: the timeout test is < 0 instead of <= 0
sessionTick_StrictTimeout(s, d) ==
    IF s.gameState = "playing"
    THEN LET s1 == IF remainingAlive(s) = 0 THEN endGame(s, "win") ELSE s
             s2 == [s1 EXCEPT !.timeRemainingSec = @ - d]
         IN IF s2.timeRemainingSec < 0 THEN endGame(s2, "timeout") ELSE s2
    ELSE s
\* the "Timer/game loop" block of animate()
sessionTick(s, d) ==
    IF s.gameState = "playing"
    THEN LET s1 == IF remainingAlive(s) = 0 THEN endGame(s, "win") ELSE s
             s2 == [s1 EXCEPT !.timeRemainingSec = @ - d]
         IN IF s2.timeRemainingSec <= 0 THEN endGame(s2, "timeout") ELSE s2
    ELSE s

(* --------------------------- configuration -------------------------------- *)
\* mutant: the world keeps the gravity it has
setWorldGravity_Skipped(s) == s
\* world.gravity.set(gravity.x, gravity.y, gravity.z)
setWorldGravity(s) == [s EXCEPT !.worldGravity = s.params.gravity]

\* Units of the parameters: speeds in cm/s, accelerations in cm/s^2, sample
\* times in 0.1 ms, lengths of the predicted line in 0.1 mm, target distances
\* in 0.1 m, the snowman height in cm.  A maxPoints field is given in tenths
\* (45 is 4.5), so that Math.floor has something to do.

\* A field of a configuration as JavaScript sees it: a finite number, NaN,
\* an infinity, null, a numeric string, any other string, or undefined.
Num(v) == [k |-> "num", v |-> v]
Str(v) == [k |-> "str", v |-> v]
Missing == [k |-> "undefined", v |-> 0]
Null == [k |-> "null", v |-> 0]
NaNValue == [k |-> "nan", v |-> 0]
Infinite == [k |-> "inf", v |-> 0]
Text == [k |-> "text", v |-> 0]

\* typeof n === 'number' && Number.isFinite(n)
isFiniteNumber(n) == n.k = "num"
\* Number(value) of a non-number: 0 for null, the number a numeric string
\* spells, NaN for any other string and for undefined
toFiniteNumber(value, fallback) ==
    IF value.k = "num" THEN value.v
    ELSE IF value.k = "null" THEN 0
    ELSE IF value.k = "str" THEN value.v
    ELSE fallback

Max(a, b) == IF a > b THEN a ELSE b
MinOf(S) == CHOOSE x \in S : \A y \in S : x <= y
MaxOf(S) == CHOOSE x \in S : \A y \in S : x >= y

\* main.js:274: Math.max(0.1, nextMinD)
MinDistanceFloor == 1
\* main.js:223: maxPts >= 4
MinPoints == 4

\* the parameters as the module declares them (main.js:47, 50, 82-84, 135-137)
DefaultParams ==
    [projectileSpeed |-> 1800, gravity |-> <<0, -980, 0>>,
     trajectoryMaxTimeSec |-> 30000, trajectorySegmentLength |-> 3500,
     trajectoryMaxPoints |-> DefaultMaxPoints, snowmanHeight |-> 120,
     targetMinDistance |-> 100, targetMaxDistance |-> 260]
\* aimYaw = 0, aimPitch = PI / 6: the unit vector (0, -sin, -cos), in thousandths
DefaultAim == <<0, -500, -866>>

\* A configuration: an object with these fields, or null.  legacy is the set
\* of distances the points of an array-form `targets` lie from the shooter
\* (empty when `targets` is not an array or no point is finite); timeLimitSec
\* is session.timeLimitSec.
NoFields ==
    [isNull |-> FALSE, initialSpeed |-> Missing,
     gravity |-> [x |-> Missing, y |-> Missing, z |-> Missing],
     maxTimeSec |-> Missing, segmentLength |-> Missing, maxPoints |-> Missing,
     snowmanHeight |-> Missing, minDistance |-> Missing, maxDistance |-> Missing,
     legacy |-> {}, timeLimitSec |-> Missing]
NullConfig == [NoFields EXCEPT !.isNull = TRUE]
DEFAULT_GAME_CONFIG ==
    [isNull |-> FALSE, initialSpeed |-> Num(1800),
     gravity |-> [x |-> Num(0), y |-> Num(-980), z |-> Num(0)],
     maxTimeSec |-> Num(30000), segmentLength |-> Num(3500),
     maxPoints |-> Num(DefaultMaxPoints * 10),
     snowmanHeight |-> Num(120), minDistance |-> Num(100), maxDistance |-> Num(260),
     legacy |-> {}, timeLimitSec |-> Missing]

\* applyGameConfig(cfg).  The audio volumes, the camera tuning and the player
\* height change nothing the model follows and are left out.  nextMinD and nextMaxD
\* are always finite (toFiniteNumber falls back to the current values, which
\* are), so the distance range is set and the platforms and targets are
\* rebuilt on every application made once the world exists.
applyGameConfig(s, cfg) ==
    LET next == IF cfg.isNull THEN DEFAULT_GAME_CONFIG ELSE cfg
        p == s.params
        world == "world" \in s.collaborators
        speed == next.initialSpeed
        g == next.gravity
        tMax == next.maxTimeSec
        segLen == next.segmentLength
        maxPts == next.maxPoints
        nextSnowmanH == next.snowmanHeight
        snowmanSet == isFiniteNumber(nextSnowmanH) /\ nextSnowmanH.v > 0
        snowmanChanged == snowmanSet /\ nextSnowmanH.v # p.snowmanHeight
        legacy == next.legacy # {}
        nextMinD == IF legacy THEN MinOf(next.legacy)
                    ELSE toFiniteNumber(next.minDistance, p.targetMinDistance)
        nextMaxD == IF legacy THEN MaxOf(next.legacy)
                    ELSE toFiniteNumber(next.maxDistance, p.targetMaxDistance)
        minD == Max(MinDistanceFloor, nextMinD)
        p1 == [projectileSpeed |->
                   IF isFiniteNumber(speed) /\ speed.v > 0 THEN speed.v ELSE p.projectileSpeed,
               gravity |->
                   IF isFiniteNumber(g.x) /\ isFiniteNumber(g.y) /\ isFiniteNumber(g.z)
                   THEN <<g.x.v, g.y.v, g.z.v>> ELSE p.gravity,
               trajectoryMaxTimeSec |->
                   IF isFiniteNumber(tMax) /\ tMax.v > 0 THEN tMax.v ELSE p.trajectoryMaxTimeSec,
               trajectorySegmentLength |->
                   IF isFiniteNumber(segLen) /\ segLen.v > 0 THEN segLen.v
                   ELSE p.trajectorySegmentLength,
               trajectoryMaxPoints |->
                   IF isFiniteNumber(maxPts) /\ maxPts.v >= MinPoints * 10 THEN maxPts.v \div 10
                   ELSE p.trajectoryMaxPoints,
               snowmanHeight |-> IF snowmanSet THEN nextSnowmanH.v ELSE p.snowmanHeight,
               targetMinDistance |-> minD,
               targetMaxDistance |-> Max(minD, nextMaxD)]
        s1 == [s EXCEPT !.params = p1]
        s2 == IF world THEN replacePlatformsAndTargets(s1) ELSE s1
        s3 == IF snowmanChanged /\ world THEN createTargets(clearTargets(s2)) ELSE s2
    IN IF world THEN setWorldGravity(s3) ELSE s3

\* loadGameConfig(): the fetched JSON (ok), or a failed fetch or parse
loadGameConfig(s, json, ok) ==
    IF ok THEN applyGameConfig([s EXCEPT !.gameConfig = json], json)
    ELSE applyGameConfig([s EXCEPT !.gameConfig = DEFAULT_GAME_CONFIG], DEFAULT_GAME_CONFIG)

(* --------------------------- trajectory ----------------------------------- *)
\* The predictor in fixed point: sample times in 0.1 ms, positions in 0.1 mm,
\* velocities in cm/s, gravity in cm/s^2, the aim direction in thousandths.
\* Every division rounds down, where the source rounds to the nearest double.

\* main.js:46 projectileRadius = 0.15 (m)
projectileRadius == 1500
\* main.js:1311: Math.max(0.05, trajectoryMaxTimeSec) (s)
MinMaxTimeSec == 500
\* main.js:1312: Math.max(0.05, trajectorySegmentLength) (m)
MinSegmentLength == 500
\* main.js:1319: Math.max(0.001, vt.length()) (m/s); the unit here is 1 cm/s,
\* and any speed below 0.4 m/s gives the largest time increment either way
SpeedFloor == 1
\* main.js:1320: clampNumber(..., { min: 0.01, max: 0.12 }) (s)
MinDt == 100
MaxDt == 1200
\* main.js:579: player.position.y = playerHeight * 0.5, playerHeight 2.0 (m)
PlayerY == 10000
\* main.js:1293: .add(new THREE.Vector3(0, 1.0, 0)) (m)
SpawnLift == 10000

RECURSIVE isqrtFrom(_, _)
isqrtFrom(n, x) ==
    LET y == (x + n \div x) \div 2
    IN IF y >= x THEN x ELSE isqrtFrom(n, y)
\* Math.sqrt, rounded down
isqrt(n) == IF n <= 0 THEN 0 ELSE isqrtFrom(n, n)
\* Vector3.length()
LengthOf(v) == isqrt(v[1] * v[1] + v[2] * v[2] + v[3] * v[3])
clampNumber(n, lo, hi) == Max(lo, Min(hi, n))

\* getProjectileSpawnPosition(dir): player.position + (0, 1, 0) + dir * 1.0
getProjectileSpawnPosition(s, dir) ==
    <<dir[1] * 10, PlayerY + SpawnLift + dir[2] * 10, dir[3] * 10>>

\* mutant: the loop does not test the elapsed sample time
RECURSIVE sampleFrom_NoTimeLimit(_, _, _, _, _, _, _, _, _)
sampleFrom_NoTimeLimit(samples, i, t, p0, v0, g, maxT, desiredSeg, maxPts) ==
    IF ~(i < maxPts) THEN samples
    ELSE LET vt == [k \in 1..3 |-> v0[k] + (g[k] * t) \div 10000]
             speedNow == Max(SpeedFloor, LengthOf(vt))
             step == clampNumber((desiredSeg * 100) \div speedNow, MinDt, MaxDt)
             t1 == t + step
             pt == [k \in 1..3 |->
                       p0[k] + (v0[k] * t1) \div 100
                             + (((g[k] * t1) \div 1000) * t1) \div 2000]
             pushed == Append(samples, [t |-> t1, pt |-> pt])
         IN IF pt[2] <= projectileRadius \div 2 THEN pushed
            ELSE sampleFrom_NoTimeLimit(pushed, i + 1, t1, p0, v0, g, maxT, desiredSeg, maxPts)
\* the loop of updateTrajectoryLine(): samples is the list built so far, each
\* entry the sample time t and the point pushed for it
RECURSIVE sampleFrom(_, _, _, _, _, _, _, _, _)
sampleFrom(samples, i, t, p0, v0, g, maxT, desiredSeg, maxPts) ==
    IF ~(i < maxPts /\ t < maxT) THEN samples
    ELSE LET vt == [k \in 1..3 |-> v0[k] + (g[k] * t) \div 10000]
             speedNow == Max(SpeedFloor, LengthOf(vt))
             step == clampNumber((desiredSeg * 100) \div speedNow, MinDt, MaxDt)
             t1 == t + step
             pt == [k \in 1..3 |->
                       p0[k] + (v0[k] * t1) \div 100
                             + (((g[k] * t1) \div 1000) * t1) \div 2000]
             pushed == Append(samples, [t |-> t1, pt |-> pt])
         IN IF pt[2] <= projectileRadius \div 2 THEN pushed
            ELSE sampleFrom(pushed, i + 1, t1, p0, v0, g, maxT, desiredSeg, maxPts)

\* main.js:1302: v0 = dir * projectileSpeed
trajectoryVelocity(s, dir) == [k \in 1..3 |-> (dir[k] * s.params.projectileSpeed) \div 1000]
\* main.js:1303: g = (gravity.x, gravity.y, gravity.z)
trajectoryGravity(s) == s.params.gravity

\* the samples one call of updateTrajectoryLine() takes in state s.
\* trajectoryMaxPoints | 0 leaves the floored value applyGameConfig stored.
trajectorySamples(s) ==
    LET dir == getAimDirection(s)
        p0 == getProjectileSpawnPosition(s, dir)
        v0 == trajectoryVelocity(s, dir)
        maxT == Max(MinMaxTimeSec, s.params.trajectoryMaxTimeSec)
        desiredSeg == Max(MinSegmentLength, s.params.trajectorySegmentLength)
        maxPts == Max(MinPoints, s.params.trajectoryMaxPoints)
    IN sampleFrom(<<[t |-> 0, pt |-> p0]>>, 1, 0, p0, v0, trajectoryGravity(s),
                  maxT, desiredSeg, maxPts)

\* mutant: the array is not emptied before the new points are pushed
updateTrajectoryLine_KeepsOldPoints(s) ==
    IF "world" \notin s.collaborators \/ "player" \notin s.collaborators THEN s
    ELSE LET samples == trajectorySamples(s)
         IN [s EXCEPT !.trajectoryPoints = @ \o [i \in 1..Len(samples) |-> samples[i].pt]]
\* updateTrajectoryLine(): the line exists once init() has built the world
\* (main.js:474), the player a little earlier; the geometry update that
\* follows the loop copies the points to the GPU buffer and is left out.
updateTrajectoryLine(s) ==
    IF "world" \notin s.collaborators \/ "player" \notin s.collaborators THEN s
    ELSE LET samples == trajectorySamples(s)
             cleared == <<>>
         IN [s EXCEPT !.trajectoryPoints = cleared \o [i \in 1..Len(samples) |-> samples[i].pt]]

(* ------------------------------ Init ------------------------------------ *)
\* the module-level state before init() has run: no scene, camera, player or
\* world yet, empty registries.
BootState ==
    [gameState |-> "playing", timeRemainingSec |-> TIME_LIMIT_SEC,
     score |-> 0, endOverlay |-> NoEnd, fireDisabled |-> FALSE,
     projectiles |-> <<>>, projectileByBodyId |-> EmptyMap,
     projectilesToRemove |-> {}, targets |-> <<>>,
     targetByBodyId |-> EmptyMap, platforms |-> <<>>,
     worldBodyIds |-> {}, bodies |-> EmptyMap, bodyVelocity |-> EmptyMap,
     worldGravity |-> <<>>, nextBodyId |-> 0,
     collaborators |-> {}, gameConfig |-> DEFAULT_GAME_CONFIG,
     params |-> DefaultParams, aim |-> DefaultAim,
     trajectoryPoints |-> <<>>, out |-> <<>>]

\* setupPhysics(): the world and its ground body
setupPhysics(s) ==
    LET s1 == setWorldGravity([s EXCEPT !.collaborators = @ \cup {"world"}])
        ground == addBody(s1, CG_WORLD, CG_PROJECTILE)
    IN [ground EXCEPT !.worldBodyIds = @ \cup {s1.nextBodyId}]

\* the state init() leaves: scene, camera, player, world with its ground body,
\* the platforms, the targets.
InitState ==
    LET s0 == [BootState EXCEPT !.collaborators = {"scene", "camera", "player"}]
    IN createTargets(createTieredPlatforms(setupPhysics(s0)))

Init ==
    /\ gameState = InitState.gameState
    /\ timeRemainingSec = InitState.timeRemainingSec
    /\ score = InitState.score
    /\ endOverlay = InitState.endOverlay
    /\ fireDisabled = InitState.fireDisabled
    /\ projectiles = InitState.projectiles
    /\ projectileByBodyId = InitState.projectileByBodyId
    /\ projectilesToRemove = InitState.projectilesToRemove
    /\ targets = InitState.targets
    /\ targetByBodyId = InitState.targetByBodyId
    /\ platforms = InitState.platforms
    /\ worldBodyIds = InitState.worldBodyIds
    /\ bodies = InitState.bodies
    /\ bodyVelocity = InitState.bodyVelocity
    /\ worldGravity = InitState.worldGravity
    /\ nextBodyId = InitState.nextBodyId
    /\ collaborators = InitState.collaborators
    /\ gameConfig = InitState.gameConfig
    /\ params = InitState.params
    /\ aim = InitState.aim
    /\ trajectoryPoints = InitState.trajectoryPoints
    /\ out = InitState.out
    /\ pc = "idle"
    /\ dt = 0
    /\ stepBodies = EmptyMap
    /\ contactsDelivered = 0
    /\ last = [op |-> "init", a |-> 0, b |-> 0]
    /\ frame = [gameState |-> "playing", timeRemainingSec |-> TIME_LIMIT_SEC, alive |-> NumTargets]
    /\ pierced = {}
    /\ destroyed = 0
    /\ contactEquations = <<>>

(* ------------------------- what the claims read ------------------------- *)
ActiveIds == {projectiles[i].id : i \in 1..Len(projectiles)}
AliveIds == {targets[i].id : i \in {j \in 1..Len(targets) : targets[j].alive}}
AliveCount == Cardinality(AliveIds)
IsProjectile(id) == id \in DOMAIN projectileByBodyId
IsAliveTarget(id) == id \in DOMAIN targetByBodyId /\ targetByBodyId[id] \in AliveIds
ShowEnds == {i \in 1..Len(out) : out[i].kind = "showEnd"}
FloatingTexts == {i \in 1..Len(out) : out[i].kind = "floatingText"}
AgeOf(id) == LET i == CHOOSE j \in 1..Len(projectiles) : projectiles[j].id = id IN projectiles[i].age

\* the ids of the active projectiles, and of the alive targets, of a state record
IdsOf(s) == {s.projectiles[i].id : i \in 1..Len(s.projectiles)}
AliveIdsOf(s) == {s.targets[i].id : i \in {j \in 1..Len(s.targets) : s.targets[j].alive}}

(* ------------------------------ actions --------------------------------- *)
Begin(s) == [s EXCEPT !.out = <<>>]
Record(op, a, b) == last' = [op |-> op, a |-> a, b |-> b]

\* a key press or the fire button
Fire ==
    /\ pc = "idle"
    /\ gameState = "playing" => nextBodyId <= MaxBodyId
    /\ Apply(fireProjectile(Begin(State)))
    /\ Record("fire", 0, 0)
    /\ UNCHANGED <<pc, dt, stepBodies, contactsDelivered, frame, pierced, destroyed, contactEquations>>

\* the restart button or the R key
Reset ==
    /\ pc = "idle"
    /\ nextBodyId + NumTargets - 1 <= MaxBodyId
    /\ Apply(resetGame(Begin(State)))
    /\ Record("reset", endOverlay.reason, Len(projectiles))
    /\ destroyed' = 0
    /\ UNCHANGED <<pc, dt, stepBodies, contactsDelivered, frame, pierced, contactEquations>>

\* the tuning panel applies a configuration; here one that names no field,
\* which leaves the parameters as they are and rebuilds the platforms and
\* the targets (the parameters are followed in SpecConfig)
ApplyGameConfig ==
    /\ pc = "idle"
    /\ nextBodyId + NumPlatforms + NumTargets - 1 <= MaxBodyId
    /\ Apply(applyGameConfig(Begin(State), NoFields))
    /\ Record("config", NoFields, 0)
    /\ UNCHANGED <<pc, dt, stepBodies, contactsDelivered, frame, pierced, destroyed, contactEquations>>

\* animate(): the frame's delta is read and world.step starts.
AnimateBegin ==
    /\ pc = "idle"
    /\ \E raw \in RawDeltas : dt' = Min(raw, MAX_DT)
    /\ Apply(Begin(State))
    /\ pc' = "step"
    /\ stepBodies' = bodies
    /\ contactsDelivered' = 0
    /\ Record("step", 0, 0)
    /\ frame' = [gameState |-> gameState, timeRemainingSec |-> timeRemainingSec,
                 alive |-> AliveCount]
    /\ pierced' = {}
    /\ UNCHANGED <<destroyed, contactEquations>>

\* a pair the collision filter admits
Admitted(a, b) ==
    /\ BitAnd(stepBodies[a].group, stepBodies[b].mask) # 0
    /\ BitAnd(stepBodies[b].group, stepBodies[a].mask) # 0

\* world.step emits beginContact for a pair of its bodies
BeginContact ==
    /\ pc = "step"
    /\ contactsDelivered < MaxContactsPerStep
    /\ \E a \in DOMAIN stepBodies, b \in DOMAIN stepBodies :
         /\ a # b
         /\ Admitted(a, b)
         /\ Apply(beginContact(Begin(State), a, b))
         /\ Record("contact", a, b)
         /\ pierced' = pierced \cup {p \in {a, b} : IsProjectile(p) /\ IsAliveTarget(IF p = a THEN b ELSE a)}
    /\ destroyed' = destroyed + Cardinality(AliveIds \ AliveIds')
    /\ contactsDelivered' = contactsDelivered + 1
    /\ UNCHANGED <<pc, dt, stepBodies, frame, contactEquations>>

\* animate(): world.step has returned, leaving each projectile body at some
\* height; updateProjectiles(dt)
UpdateProjectiles ==
    /\ pc = "step"
    /\ \E ys \in [DOMAIN projectileByBodyId -> YValues] :
         /\ Apply(updateProjectiles(Begin(State), dt, ys))
         /\ Record("update", 0, ys)
    /\ pc' = "timer"
    /\ UNCHANGED <<dt, stepBodies, contactsDelivered, frame, pierced, destroyed, contactEquations>>

\* animate(): the timer block; the frame ends
SessionTick ==
    /\ pc = "timer"
    /\ Apply(sessionTick(Begin(State), dt))
    /\ pc' = "idle"
    /\ Record("tick", timeRemainingSec, 0)
    /\ UNCHANGED <<dt, stepBodies, contactsDelivered, frame, pierced, destroyed, contactEquations>>

Next ==
    \/ Fire
    \/ Reset
    \/ ApplyGameConfig
    \/ AnimateBegin
    \/ BeginContact
    \/ UpdateProjectiles
    \/ SessionTick

Spec == Init /\ [][Next]_vars


(* ------------- the operations called directly, in any order ------------ *)
\* The contracts of destroyTarget, removeProjectile, fireProjectile and the
\* begin-contact listener cover calls the game loop never makes (a target
\* destroyed twice, an index that names no projectile, a fire request before
\* init() has built the world, an event naming an unregistered body).  SpecOps
\* starts before init() and calls each operation directly with any argument.
InitOps ==
    /\ gameState = BootState.gameState
    /\ timeRemainingSec = BootState.timeRemainingSec
    /\ score = BootState.score
    /\ endOverlay = BootState.endOverlay
    /\ fireDisabled = BootState.fireDisabled
    /\ projectiles = BootState.projectiles
    /\ projectileByBodyId = BootState.projectileByBodyId
    /\ projectilesToRemove = BootState.projectilesToRemove
    /\ targets = BootState.targets
    /\ targetByBodyId = BootState.targetByBodyId
    /\ platforms = BootState.platforms
    /\ worldBodyIds = BootState.worldBodyIds
    /\ bodies = BootState.bodies
    /\ bodyVelocity = BootState.bodyVelocity
    /\ worldGravity = BootState.worldGravity
    /\ nextBodyId = BootState.nextBodyId
    /\ collaborators = BootState.collaborators
    /\ gameConfig = BootState.gameConfig
    /\ params = BootState.params
    /\ aim = BootState.aim
    /\ trajectoryPoints = BootState.trajectoryPoints
    /\ out = BootState.out
    /\ pc = "idle"
    /\ dt = 0
    /\ stepBodies = EmptyMap
    /\ contactsDelivered = 0
    /\ last = [op |-> "boot", a |-> 0, b |-> 0]
    /\ frame = [gameState |-> "playing", timeRemainingSec |-> TIME_LIMIT_SEC, alive |-> 0]
    /\ pierced = {}
    /\ destroyed = 0
    /\ contactEquations = <<>>

harnessVars == <<pc, dt, stepBodies, contactsDelivered, frame, pierced, contactEquations>>

\* init() builds the scene, the camera, the player, and then the world with
\* its ground, platforms and targets
InitStep ==
    /\ collaborators # Collaborators
    /\ LET s == Begin(State)
       IN IF "scene" \notin collaborators
          THEN Apply([s EXCEPT !.collaborators = @ \cup {"scene"}])
          ELSE IF "camera" \notin collaborators
          THEN Apply([s EXCEPT !.collaborators = @ \cup {"camera"}])
          ELSE IF "player" \notin collaborators
          THEN Apply([s EXCEPT !.collaborators = @ \cup {"player"}])
          ELSE Apply(createTargets(createTieredPlatforms(setupPhysics(s))))
    /\ Record("init", 0, 0)
    /\ UNCHANGED <<harnessVars, destroyed>>

\* fireProjectile()
CallFireProjectile ==
    /\ (gameState = "playing" /\ collaborators = Collaborators) => nextBodyId <= MaxBodyId
    /\ Apply(fireProjectile(Begin(State)))
    /\ Record("fire", collaborators, 0)
    /\ UNCHANGED <<harnessVars, destroyed>>

\* destroyTarget(target) for any record of the targets array
CallDestroyTarget ==
    /\ score < SCORE_PER_TARGET * (NumTargets + 1)
    /\ \E i \in 1..Len(targets) :
         /\ Apply(destroyTarget(Begin(State), targets[i].id))
         /\ Record("destroy", targets[i].id, targets[i].alive)
    /\ destroyed' = destroyed + Cardinality(AliveIds \ AliveIds')
    /\ UNCHANGED harnessVars

\* removeProjectile(idx) for any index, one before the first and one past
\* the last included
CallRemoveProjectile ==
    /\ \E idx \in 0..(Len(projectiles) + 1) :
         /\ Apply(removeProjectile(Begin(State), idx))
         /\ Record("remove", idx, Len(projectiles))
    /\ UNCHANGED <<harnessVars, destroyed>>

\* the begin-contact listener with an event naming any two bodies
CallBeginContact ==
    /\ \E a \in 0..MaxBodyId, b \in 0..MaxBodyId :
         /\ a # b
         /\ Apply(beginContact(Begin(State), a, b))
         /\ Record("contact", a, b)
    /\ destroyed' = destroyed + Cardinality(AliveIds \ AliveIds')
    /\ UNCHANGED harnessVars

\* resetGame(), from the restart button or the R key, which init() wires
\* once the world is built; the marks it found are recorded
CallResetGame ==
    /\ collaborators = Collaborators
    /\ nextBodyId + NumTargets - 1 <= MaxBodyId
    /\ Apply(resetGame(Begin(State)))
    /\ Record("reset", projectilesToRemove, Len(projectiles))
    /\ destroyed' = 0
    /\ UNCHANGED harnessVars

NextOps ==
    \/ InitStep
    \/ CallFireProjectile
    \/ CallDestroyTarget
    \/ CallRemoveProjectile
    \/ CallBeginContact
    \/ CallResetGame

SpecOps == InitOps /\ [][NextOps]_vars

(* ------------------ the preSolve listener inside a step ----------------- *)
\* The listener reads the two registries and writes only the equations it is
\* handed.  SpecPreSolve starts inside a physics step, with some projectiles
\* fired and the first of them having destroyed some of the targets in this
\* step, and delivers a preSolve notification with any list of equations.
RECURSIVE fireTimes(_, _)
fireTimes(s, k) == IF k = 0 THEN s ELSE fireTimes(fireProjectile(s), k - 1)
RECURSIVE contactAll(_, _, _)
contactAll(s, p, ts) ==
    IF ts = {} THEN s
    ELSE LET tid == CHOOSE x \in ts : TRUE
         IN contactAll(beginContact(s, p, tid), p, ts \ {tid})

InitPreSolve ==
    \E k \in 0..(MaxBodyId + 1 - InitState.nextBodyId), ts \in SUBSET AliveIdsOf(InitState) :
        /\ k = 0 => ts = {}
        /\ LET fired == fireTimes(InitState, k)
               s == Begin(contactAll(fired, InitState.nextBodyId, ts))
           IN /\ gameState = s.gameState
              /\ timeRemainingSec = s.timeRemainingSec
              /\ score = s.score
              /\ endOverlay = s.endOverlay
              /\ fireDisabled = s.fireDisabled
              /\ projectiles = s.projectiles
              /\ projectileByBodyId = s.projectileByBodyId
              /\ projectilesToRemove = s.projectilesToRemove
              /\ targets = s.targets
              /\ targetByBodyId = s.targetByBodyId
              /\ platforms = s.platforms
              /\ worldBodyIds = s.worldBodyIds
              /\ bodies = s.bodies
              /\ bodyVelocity = s.bodyVelocity
              /\ worldGravity = s.worldGravity
              /\ nextBodyId = s.nextBodyId
              /\ collaborators = s.collaborators
              /\ gameConfig = s.gameConfig
              /\ params = s.params
              /\ aim = s.aim
              /\ trajectoryPoints = s.trajectoryPoints
              /\ out = s.out
              /\ stepBodies = fired.bodies
              /\ contactsDelivered = Cardinality(ts)
              /\ destroyed = Cardinality(ts)
              /\ pierced = IF ts = {} THEN {} ELSE {InitState.nextBodyId}
        /\ pc = "step"
        /\ dt = 0
        /\ last = [op |-> "step", a |-> 0, b |-> 0]
        /\ frame = [gameState |-> "playing", timeRemainingSec |-> TIME_LIMIT_SEC, alive |-> NumTargets]
        /\ contactEquations = <<>>

\* the equations a notification may carry: any two bodies, either possibly
\* missing, enabled or not
Equations == [bi : (0..MaxBodyId) \cup {NoBody}, bj : (0..MaxBodyId) \cup {NoBody}, enabled : BOOLEAN]
EquationLists == UNION {[1..n -> Equations] : n \in 1..MaxEquations}

\* world.step dispatches preSolve, once, with the step's contact equations
PreSolve ==
    /\ pc = "step"
    /\ last.op # "preSolve"
    /\ \E eqs \in EquationLists :
         /\ contactEquations' = preSolve(State, eqs)
         /\ Record("preSolve", eqs, 0)
    /\ Apply(Begin(State))
    /\ UNCHANGED <<pc, dt, stepBodies, contactsDelivered, frame, pierced, destroyed>>

NextPreSolve == PreSolve

SpecPreSolve == InitPreSolve /\ [][NextPreSolve]_vars

(* ---------------- configurations, loaded and applied live --------------- *)
\* SpecConfig starts before init(): init() first loads a configuration, then
\* builds the scene, camera, player and world; after that the tuning panel
\* applies configurations, the restart button resets, and targets are
\* destroyed.  The configurations name no field, or one field with a valid or
\* a malformed value, or both distances, or the array form of `targets`; or
\* they are null, or the defaults.
GravityOf(x, y, z) == [x |-> x, y |-> y, z |-> z]
Configs ==
    {NoFields, NullConfig, DEFAULT_GAME_CONFIG}
    \cup {[NoFields EXCEPT !.initialSpeed = v] :
             v \in {Num(500), Num(0), NaNValue, Null, Str(500)}}
    \cup {[NoFields EXCEPT !.gravity = g] :
             g \in {GravityOf(Num(0), Num(-490), Num(0)),
                    GravityOf(Num(0), NaNValue, Num(0)),
                    GravityOf(Num(0), Num(-490), Missing)}}
    \cup {[NoFields EXCEPT !.maxTimeSec = v] : v \in {Num(200), Num(0), Infinite}}
    \cup {[NoFields EXCEPT !.segmentLength = v] : v \in {Num(7000), Num(-1), Text}}
    \cup {[NoFields EXCEPT !.maxPoints = v] : v \in {Num(45), Num(39), Null}}
    \cup {[NoFields EXCEPT !.snowmanHeight = v] : v \in {Num(200), Num(0)}}
    \cup {[NoFields EXCEPT !.minDistance = lo, !.maxDistance = hi] :
             lo \in {Missing, Num(120), Num(300), Num(0), Null, NaNValue, Str(120)},
             hi \in {Missing, Num(200), Num(50), Null, Infinite}}
    \cup {[NoFields EXCEPT !.legacy = ds] : ds \in {{80, 150}}}
    \cup {[NoFields EXCEPT !.timeLimitSec = v] : v \in {Num(TIME_LIMIT_SEC - 1), Num(0)}}

\* init(): await loadGameConfig(), the fetch succeeding with any configuration
\* or failing
LoadGameConfig ==
    /\ last.op = "boot"
    /\ \E json \in Configs, ok \in BOOLEAN :
         /\ Apply(loadGameConfig(Begin(State), json, ok))
         /\ Record("load", json, ok)
    /\ UNCHANGED <<harnessVars, destroyed>>

\* init() goes on once the configuration is loaded
InitAfterLoad == last.op # "boot" /\ InitStep

\* the tuning panel applies any configuration
SetLiveGameConfig ==
    /\ collaborators = Collaborators
    /\ nextBodyId + NumPlatforms + NumTargets - 1 <= MaxBodyId
    /\ \E cfg \in Configs :
         \E s \in {applyGameConfig(Begin(State), cfg)} :
            /\ s.nextBodyId <= MaxBodyId + 1
            /\ Apply(s)
            /\ Record("config", cfg, 0)
    /\ UNCHANGED <<harnessVars, destroyed>>

\* the restart button or the R key, which init() has wired
ResetAfterInit == collaborators = Collaborators /\ Reset

NextConfig ==
    \/ LoadGameConfig
    \/ InitAfterLoad
    \/ SetLiveGameConfig
    \/ ResetAfterInit
    \/ CallDestroyTarget

SpecConfig == InitOps /\ [][NextConfig]_vars

(* ------------- the timer block on a session with no target alive ------- *)
\* destroyTarget ends the session as soon as it leaves no target alive, so the
\* game never brings a Playing session with no alive target to the timer
\* block.  SpecTick hands the frame such sessions: it starts from the session
\* init() builds with any of its targets already taken out of the registry
\* (not alive, no id-lookup entry, no body) and any time left on the timer,
\* and runs frames.
withoutTargets(s, ids) ==
    [removeBodies(s, ids) EXCEPT
        !.targets = [i \in 1..Len(@) |->
                        IF @[i].id \in ids THEN [@[i] EXCEPT !.alive = FALSE] ELSE @[i]],
        !.targetByBodyId = [k \in (DOMAIN @) \ ids |-> @[k]],
        !.score = SCORE_PER_TARGET * Cardinality(ids)]

InitTick ==
    \E ids \in SUBSET AliveIdsOf(InitState), left \in 1..TIME_LIMIT_SEC :
        LET s == [withoutTargets(InitState, ids) EXCEPT !.timeRemainingSec = left]
        IN /\ gameState = s.gameState
           /\ timeRemainingSec = s.timeRemainingSec
           /\ score = s.score
           /\ endOverlay = s.endOverlay
           /\ fireDisabled = s.fireDisabled
           /\ projectiles = s.projectiles
           /\ projectileByBodyId = s.projectileByBodyId
           /\ projectilesToRemove = s.projectilesToRemove
           /\ targets = s.targets
           /\ targetByBodyId = s.targetByBodyId
           /\ platforms = s.platforms
           /\ worldBodyIds = s.worldBodyIds
           /\ bodies = s.bodies
           /\ bodyVelocity = s.bodyVelocity
           /\ worldGravity = s.worldGravity
           /\ nextBodyId = s.nextBodyId
           /\ collaborators = s.collaborators
           /\ gameConfig = s.gameConfig
           /\ params = s.params
           /\ aim = s.aim
           /\ trajectoryPoints = s.trajectoryPoints
           /\ out = s.out
           /\ pc = "idle"
           /\ dt = 0
           /\ stepBodies = EmptyMap
           /\ contactsDelivered = 0
           /\ last = [op |-> "init", a |-> 0, b |-> 0]
           /\ frame = [gameState |-> s.gameState, timeRemainingSec |-> left,
                       alive |-> NumTargets - Cardinality(ids)]
           /\ pierced = {}
           /\ destroyed = Cardinality(ids)
           /\ contactEquations = <<>>

NextTick ==
    \/ Fire
    \/ AnimateBegin
    \/ UpdateProjectiles
    \/ SessionTick

SpecTick == InitTick /\ [][NextTick]_vars

(* ---------------------- frames that keep coming ------------------------- *)
\* SpecLive is the frame loop with fire requests, started from the sessions
\* of SpecTick (any of the targets gone, any time left, so that the session
\* ends by win or by timeout and goes on Ended), with frames that keep coming:
\* requestAnimationFrame calls animate() again and again, a frame that has
\* started runs its update pass and its timer block, and the clock returns a
\* positive delta again and again (frames with delta 0 may come in between,
\* any number of times).

\* the update pass as in UpdateProjectiles; the heights are drawn, not recorded
UpdateProjectilesLive ==
    /\ pc = "step"
    /\ \E ys \in [DOMAIN projectileByBodyId -> YValues] :
         Apply(updateProjectiles(Begin(State), dt, ys))
    /\ Record("update", 0, 0)
    /\ pc' = "timer"
    /\ UNCHANGED <<dt, stepBodies, contactsDelivered, frame, pierced, destroyed, contactEquations>>

NextLive ==
    \/ Fire
    \/ AnimateBegin
    \/ UpdateProjectilesLive
    \/ SessionTick

\* The steps the fairness conditions are about, by what they do to pc and dt:
\* AnimateBegin drawing a positive delta is the only step from "idle" to
\* "step" with dt' > 0 and can be taken whenever pc = "idle"; the update pass
\* is the only step from "step" to "timer", the timer block the only one from
\* "timer" to "idle", and each can be taken whenever pc is there.
FrameStartsPositive == pc = "idle" /\ pc' = "step" /\ dt' \in 1..MAX_DT
UpdatePassRuns == pc = "step" /\ pc' = "timer"
TimerBlockRuns == pc = "timer" /\ pc' = "idle"

SpecLive ==
    /\ InitTick /\ [][NextLive]_vars
    /\ SF_pc(FrameStartsPositive)
    /\ WF_pc(UpdatePassRuns)
    /\ WF_pc(TimerBlockRuns)

(* ----------------------- the trajectory predictor ----------------------- *)
\* SpecTrajectory follows the predicted line: init() loads a configuration
\* that sets some of the launch speed, the sampling time limit and the point
\* limit, and builds the session; then the player drags the aim and fires, the
\* tuning panel applies such a configuration, and the frame calls the
\* predictor.
TrajectoryConfigs ==
    {[NoFields EXCEPT !.initialSpeed = v, !.maxTimeSec = m, !.maxPoints = n] :
        v \in {Missing, Num(500), Num(4000)},
        m \in {Missing, Num(200), Num(1000)},
        n \in {Missing, Num(60)}}
\* aim directions within the pitch limits: the default (30 degrees down),
\* level, 37 degrees up, level and 37 degrees to the left
Aims == {DefaultAim, <<0, 0, -1000>>, <<0, 600, -800>>, <<-600, 0, -800>>}

LoadTrajectoryConfig ==
    /\ last.op = "boot"
    /\ \E json \in TrajectoryConfigs :
         /\ Apply(loadGameConfig(Begin(State), json, TRUE))
         /\ Record("load", json, TRUE)
    /\ UNCHANGED <<harnessVars, destroyed>>

\* onMouseMove / onTouchMove: a drag turns the aim
Drag ==
    /\ collaborators = Collaborators
    /\ \E a \in Aims : Apply([Begin(State) EXCEPT !.aim = a])
    /\ Record("drag", 0, 0)
    /\ UNCHANGED <<harnessVars, destroyed>>

TuneTrajectory ==
    /\ collaborators = Collaborators
    /\ nextBodyId + NumPlatforms + NumTargets - 1 <= MaxBodyId
    /\ \E cfg \in TrajectoryConfigs :
         /\ Apply(applyGameConfig(Begin(State), cfg))
         /\ Record("config", cfg, 0)
    /\ UNCHANGED <<harnessVars, destroyed>>

\* animate(): updateTrajectoryLine()
UpdateTrajectoryLine ==
    /\ collaborators = Collaborators
    /\ \E s \in {updateTrajectoryLine(Begin(State))} : Apply(s)
    /\ Record("trajectory", trajectoryPoints, 0)
    /\ UNCHANGED <<harnessVars, destroyed>>

NextTrajectory ==
    \/ LoadTrajectoryConfig
    \/ InitAfterLoad
    \/ Drag
    \/ Fire
    \/ TuneTrajectory
    \/ UpdateTrajectoryLine

SpecTrajectory == InitOps /\ [][NextTrajectory]_vars

(* ------------- launch speed and gravity, configured and used ------------ *)
\* SpecLaunch follows the launch speed and the gravity from the configuration
\* to the physics world and the fired projectiles: init() loads a
\* configuration and builds the session; then the player drags the aim and
\* fires, and the tuning panel applies configurations, in any order.  The
\* configurations set the speed, the gravity, both or neither, with valid and
\* malformed values.
LaunchConfigs ==
    {NullConfig}
    \cup {[NoFields EXCEPT !.initialSpeed = v, !.gravity = g] :
             v \in {Missing, Num(500), Num(4000), NaNValue},
             g \in {GravityOf(Missing, Missing, Missing),
                    GravityOf(Num(0), Num(-490), Num(0)),
                    GravityOf(Num(100), Num(-980), Missing)}}

LoadLaunchConfig ==
    /\ last.op = "boot"
    /\ \E json \in LaunchConfigs, ok \in BOOLEAN :
         /\ Apply(loadGameConfig(Begin(State), json, ok))
         /\ Record("load", json, ok)
    /\ UNCHANGED <<harnessVars, destroyed>>

TuneLaunch ==
    /\ collaborators = Collaborators
    /\ nextBodyId + NumPlatforms + NumTargets - 1 <= MaxLaunchBodyId
    /\ \E cfg \in LaunchConfigs :
         /\ Apply(applyGameConfig(Begin(State), cfg))
         /\ Record("config", cfg, 0)
    /\ UNCHANGED <<harnessVars, destroyed>>

FireLaunch ==
    /\ collaborators = Collaborators
    /\ nextBodyId <= MaxLaunchBodyId
    /\ Len(projectiles) < MaxInFlight
    /\ Apply(fireProjectile(Begin(State)))
    /\ Record("fire", 0, 0)
    /\ UNCHANGED <<harnessVars, destroyed>>

NextLaunch ==
    \/ LoadLaunchConfig
    \/ InitAfterLoad
    \/ Drag
    \/ TuneLaunch
    \/ FireLaunch

SpecLaunch == InitOps /\ [][NextLaunch]_vars

(* ------------------------------ claims ---------------------------------- *)
IsContactStep == pc = "step" /\ pc' = "step" /\ last'.op = "contact"
IsUpdateStep == pc = "step" /\ pc' = "timer"
IsTickStep == pc = "timer" /\ pc' = "idle"
IsResetStep == last'.op = "reset" /\ pc = "idle" /\ pc' = "idle"
IsFireStep == last'.op = "fire" /\ pc = "idle" /\ pc' = "idle"
Other(p, a, b) == IF p = a THEN b ELSE a

C1_ContactPart ==
    IsContactStep =>
        \A p \in {last'.a, last'.b} :
            LET o == Other(p, last'.a, last'.b) IN
            (IsProjectile(p) /\ IsAliveTarget(o)) =>
                /\ o \notin AliveIds'
                /\ (p \in projectilesToRemove') = (p \in projectilesToRemove)
                /\ p \in ActiveIds'
C1_UpdatePart ==
    IsUpdateStep =>
        \A p \in pierced :
            (p \notin ActiveIds') =
                (\/ AgeOf(p) + dt > projectileMaxAgeSec
                 \/ p \in projectilesToRemove
                 \/ last'.b[p] < FailsafeY)
\* C1 (piercing): a begin-contact event that pairs a registered projectile
\* with an alive target makes the target not-alive and leaves the projectile's
\* membership of the pending-removal set as it was; and after the update pass
\* that follows, a projectile that pierced in this step is gone exactly when
\* its age exceeded the maximum, or a world contact had marked it, or its
\* height was below the failsafe height.
C1_Piercing == [][C1_ContactPart /\ C1_UpdatePart]_vars
\* a projectile that destroyed a target in the step is still active after the update pass
C1_Witness == last.op = "update" /\ \E p \in pierced : p \in ActiveIds /\ p \in DOMAIN projectileByBodyId

\* C2 (handle consistency): a projectile record is in the active list iff its
\* body id is a key of the id-lookup map, and the entry is that record.
C2_HandleConsistency ==
    /\ \A i \in 1..Len(projectiles) :
          /\ projectiles[i].id \in DOMAIN projectileByBodyId
          /\ projectileByBodyId[projectiles[i].id] = projectiles[i].id
    /\ \A k \in DOMAIN projectileByBodyId :
          /\ projectileByBodyId[k] = k
          /\ \E i \in 1..Len(projectiles) : projectiles[i].id = k
    /\ \A i, j \in 1..Len(projectiles) : projectiles[i].id = projectiles[j].id => i = j
\* an update pass has removed one projectile and kept another
C2_Witness ==
    /\ last.op = "update"
    /\ \E p \in DOMAIN last.b : p \notin ActiveIds
    /\ ActiveIds # {}

C3_Step ==
    (IsContactStep /\ gameState = "playing" /\ AliveCount > 0 /\ AliveCount' = 0) =>
        /\ gameState' = "ended"
        /\ score' = score + SCORE_PER_TARGET
        /\ endOverlay' = [reason |-> "win", finalScore |-> score + SCORE_PER_TARGET]
        /\ \E i \in 1..Len(out') :
              out'[i] = [kind |-> "showEnd", reason |-> "win", finalScore |-> score + SCORE_PER_TARGET]
\* C3 (win trigger): the contact that destroys the last alive target while
\* Playing ends the session with reason win in that same contact handling, and
\* the final score notified includes that target's points.
C3_WinTrigger == [][C3_Step]_vars
\* the session was ended with reason win by the contact just handled, still inside the step
C3_Witness ==
    /\ last.op = "contact" /\ pc = "step"
    /\ gameState = "ended" /\ endOverlay.reason = "win"
    /\ ShowEnds # {} /\ AliveCount = 0
    /\ endOverlay.finalScore = score /\ score >= SCORE_PER_TARGET

C4_Step ==
    (IsTickStep /\ gameState = "playing" /\ AliveCount > 0) =>
        IF timeRemainingSec - dt <= 0
        THEN /\ gameState' = "ended"
             /\ endOverlay'.reason = "timeout"
             /\ timeRemainingSec' = 0
        ELSE /\ gameState' = "playing"
             /\ timeRemainingSec' = timeRemainingSec - dt
\* C4 (timeout trigger): a frame tick taken while Playing with a target alive
\* ends the session with reason timeout and timeRemaining exactly 0 when
\* timeRemaining - dt <= 0, and otherwise stays Playing with timeRemaining
\* reduced by exactly dt.
C4_TimeoutTrigger == [][C4_Step]_vars
\* the tick found 1 unit (0.01 s) left and took 5 units (0.05 s)
C4_Witness ==
    /\ last.op = "tick" /\ last.a = 1 /\ dt = MAX_DT
    /\ gameState = "ended" /\ endOverlay.reason = "timeout" /\ timeRemainingSec = 0

C5_State ==
    /\ timeRemainingSec >= 0
    /\ gameState = "ended" => timeRemainingSec = 0
C5_Step ==
    (gameState = "playing" /\ gameState' = "playing" /\ ~IsResetStep) =>
        timeRemainingSec' <= timeRemainingSec
C6_BothInFrame ==
    /\ last.op = "tick"
    /\ frame.gameState = "playing" /\ frame.alive > 0
    /\ AliveCount = 0
    /\ frame.timeRemainingSec - dt <= 0
\* C6 (win precedence): a frame that started Playing, in which the last alive
\* target was destroyed and in which timeRemaining - dt <= 0, ends with reason
\* win.
C6_WinPrecedence == C6_BothInFrame => (gameState = "ended" /\ endOverlay.reason = "win")
C6_Witness == C6_BothInFrame /\ endOverlay.reason = "win" /\ dt > 0

C7_Step ==
    /\ (gameState = "ended" /\ ~IsResetStep) =>
          (gameState' = "ended" /\ endOverlay' = endOverlay)
    /\ Cardinality(ShowEnds') = (IF gameState = "playing" /\ gameState' = "ended" THEN 1 ELSE 0)
\* C7 (Ended is terminal until reset): while Ended, no step other than reset
\* changes the state or the reason shown; and the end notification is emitted
\* exactly once by each step that takes the session from Playing to Ended, and
\* by no other step.
C7_EndedTerminal == [][C7_Step]_vars
\* after a timeout, a projectile still in flight destroyed the last target: it stays a timeout
C7_Witness ==
    /\ last.op = "contact" /\ FloatingTexts # {}
    /\ gameState = "ended" /\ endOverlay.reason = "timeout" /\ AliveCount = 0

C8_Step ==
    /\ (IsFireStep /\ gameState = "ended") =>
          /\ projectiles' = projectiles
          /\ projectileByBodyId' = projectileByBodyId
          /\ projectilesToRemove' = projectilesToRemove
          /\ bodies' = bodies
    /\ (gameState = "ended" /\ gameState' = "ended") => Len(projectiles') <= Len(projectiles)
\* C8 (fire rejected while Ended): a fire request while Ended leaves the
\* active list, the id-lookup map, the pending-removal set and the physics
\* world unchanged; and no step from Ended to Ended adds a projectile.
C8_FireRejected == [][C8_Step]_vars
\* a fire request was made while Ended, with a projectile still in flight
C8_Witness == last.op = "fire" /\ gameState = "ended" /\ Len(projectiles) > 0

\* C9 (reset): right after reset() the session is Playing, the score is 0,
\* timeRemaining is the time limit, NumTargets targets are alive, and the
\* active list, the id-lookup map and the pending-removal set are empty.
C9_Reset ==
    last.op = "reset" =>
        /\ gameState = "playing"
        /\ score = 0
        /\ timeRemainingSec = TIME_LIMIT_SEC
        /\ AliveCount = NumTargets /\ Len(targets) = NumTargets
        /\ DOMAIN targetByBodyId = AliveIds
        /\ projectiles = <<>>
        /\ projectileByBodyId = EmptyMap
        /\ projectilesToRemove = {}
        /\ endOverlay = NoEnd
\* reset() was called on a session Ended by timeout with a projectile in flight
C9_Witness == last.op = "reset" /\ last.a = "timeout" /\ last.b > 0

C10_State == score = SCORE_PER_TARGET * destroyed /\ score >= 0
C10_Step ==
    \/ score' = score
    \/ score' = score + SCORE_PER_TARGET /\ IsContactStep /\ Cardinality(AliveIds \ AliveIds') = 1
    \/ score' = 0 /\ IsResetStep
\* C10 (score accumulation): the score is 50 times the number of target
\* destructions since the last reset, and a step changes it only by +50 (a
\* destruction) or to 0 (reset).
C10_ScoreAccumulation == [](C10_State) /\ [][C10_Step]_vars
\* two distinct targets destroyed in one round: 100 points
C10_Witness == score = 2 * SCORE_PER_TARGET /\ destroyed = 2 /\ AliveCount = 0

C11_Step ==
    (last'.op = "destroy" /\ last'.b = FALSE) =>
        /\ score' = score
        /\ targets' = targets
        /\ targetByBodyId' = targetByBodyId
        /\ gameState' = gameState
        /\ endOverlay' = endOverlay
        /\ FloatingTexts' = {} /\ ShowEnds' = {}
\* C11 (idempotent destroy): destroyTarget called on a target that is already
\* not-alive leaves the score, the alive flags, the target id-lookup map, the
\* session state and the end reason as they were, and emits neither a
\* floating text nor an end notification.
C11_IdempotentDestroy == [][C11_Step]_vars

\* the call names the handle the previous call removed a projectile at
C12_AlreadyRemoved == last.op = "remove" /\ last.a \in 1..last.b /\ last'.a = last.a
\* the call names no projectile of the active list
C12_UnknownHandle == last'.a \notin 1..Len(projectiles)
C12_Step ==
    (last'.op = "remove" /\ (C12_AlreadyRemoved \/ C12_UnknownHandle)) =>
        /\ projectiles' = projectiles
        /\ projectileByBodyId' = projectileByBodyId
        /\ projectilesToRemove' = projectilesToRemove
\* C12 (idempotent remove): removeProjectile called again with the handle of
\* a projectile it has just removed, or with a handle that names no
\* projectile, leaves the active list, the id-lookup map and the
\* pending-removal set as they were.
C12_IdempotentRemove == [][C12_Step]_vars

C13_Step ==
    IsUpdateStep =>
        \A p \in ActiveIds :
            /\ (p \notin ActiveIds') =
                   (\/ AgeOf(p) + dt > projectileMaxAgeSec
                    \/ p \in projectilesToRemove
                    \/ last'.b[p] < FailsafeY)
            /\ p \in ActiveIds' => AgeOf(p)' = AgeOf(p) + dt
C14_Step == (pc = "step" /\ pc' = "step") => DOMAIN bodies \subseteq DOMAIN bodies'
\* C14 (deferred removal): while the physics step is in progress (from its
\* start to the update pass that follows it) no body leaves the physics
\* world: the contact callbacks only mark state.
C14_DeferredRemoval == [][C14_Step]_vars

\* the state after the listener has handled the event (a, b) and then (c, d)
AfterTwo(s, a, b, c, d) == Begin(beginContact(Begin(beginContact(Begin(s), a, b)), c, d))
\* the two ways an event can name a pair
Orders(x, y) == {<<x, y>>, <<y, x>>}
C15_Triples ==
    {<<p, t, w>> \in (DOMAIN projectileByBodyId) \X AliveIds \X worldBodyIds : TRUE}
\* C15 (same-step target and world contact): in every state of a physics
\* step in which two more events can be delivered, for every registered
\* projectile p, alive target t and world body w, handling the events (p, t)
\* and (p, w) in either order (and with either body first in each event)
\* gives one and the same state, in which t is not alive, the score is 50
\* higher, p is in the pending-removal set, and the update pass that follows
\* removes p whatever its height.
C15_SameStepOrder ==
    (pc = "step" /\ contactsDelivered + 2 <= MaxContactsPerStep) =>
        \A x \in C15_Triples :
            \A tw \in {AfterTwo(State, x[1], x[2], x[1], x[3])} :
                /\ \A e1 \in Orders(x[1], x[2]), e2 \in Orders(x[1], x[3]) :
                      /\ AfterTwo(State, e1[1], e1[2], e2[1], e2[2]) = tw
                      /\ AfterTwo(State, e2[1], e2[2], e1[1], e1[2]) = tw
                /\ x[2] \notin AliveIdsOf(tw)
                /\ tw.score = score + SCORE_PER_TARGET
                /\ x[1] \in tw.projectilesToRemove
                /\ \A ys \in [DOMAIN tw.projectileByBodyId -> YValues] :
                      \A u \in {updateProjectiles(tw, dt, ys)} :
                          x[1] \notin IdsOf(u) /\ x[1] \notin DOMAIN u.projectileByBodyId
\* in one step a projectile destroyed a target and was marked by a world
\* contact, and the update pass removed it (its age and height did not)
C15_Witness ==
    /\ last.op = "update" /\ dt = 0
    /\ \E p \in pierced : p \notin ActiveIds /\ last.b[p] = FailsafeY
    /\ contactsDelivered = MaxContactsPerStep

C16_Pairs ==
    {<<p, t1, t2>> \in (DOMAIN projectileByBodyId) \X AliveIds \X AliveIds : TRUE}
C16_State ==
    (pc = "step" /\ contactsDelivered + 2 <= MaxContactsPerStep) =>
        \A x \in C16_Pairs : x[2] # x[3] =>
            \A both \in {AfterTwo(State, x[1], x[2], x[3], x[1])} :
                /\ {x[2], x[3]} \cap AliveIdsOf(both) = {}
                /\ both.score = score + 2 * SCORE_PER_TARGET
                /\ \A q \in DOMAIN projectileByBodyId :
                      AfterTwo(both, q, x[2], x[3], q) = both
C16_Step ==
    /\ IsContactStep =>
          /\ score' - score = SCORE_PER_TARGET * Cardinality(AliveIds \ AliveIds')
          /\ Cardinality(FloatingTexts') = Cardinality(AliveIds \ AliveIds')
          /\ (AliveIds \ AliveIds') \subseteq {last'.a, last'.b}
    /\ \A id \in AliveIds' \ AliveIds : id >= nextBodyId
    /\ score' > score => IsContactStep
\* C16 (per-target single credit): a contact event credits 50 points and one
\* floating text for each target it takes from alive to not-alive, naming
\* that target, and nothing else credits; a target that is not alive never
\* becomes alive again (the targets a reset or a rebuild creates are new
\* ones), so no target is credited twice.  In every state of a step in which
\* two more events can be delivered, a projectile's contacts with two
\* distinct alive targets destroy both and raise the score by 100, and
\* further events naming them change nothing.
C16_SingleCredit == [](C16_State) /\ [][C16_Step]_vars
\* one projectile destroyed two targets in one step, the second event being
\* delivered after the session had ended
C16_Witness ==
    /\ pc = "step" /\ last.op = "contact" /\ contactsDelivered = MaxContactsPerStep
    /\ Cardinality(pierced) = 1 /\ frame.alive - AliveCount = 2
    /\ score >= 2 * SCORE_PER_TARGET

C17_State == pc \in {"idle", "timer"} => projectilesToRemove = {}
C17_Step ==
    /\ IsContactStep =>
          /\ \A p \in {last'.a, last'.b} :
                (IsProjectile(p) /\ Other(p, last'.a, last'.b) \in worldBodyIds) =>
                    p \in projectilesToRemove'
          /\ projectilesToRemove \subseteq projectilesToRemove'
    /\ IsUpdateStep =>
          \A p \in projectilesToRemove :
              p \notin ActiveIds' /\ p \notin DOMAIN projectileByBodyId'
\* C17 (world contact ends the projectile within the frame): a begin-contact
\* event pairing a registered projectile with a world body puts it in the
\* pending-removal set, where it stays for the rest of the step; the update
\* pass of that frame removes every marked projectile from the active list
\* and the id-lookup map; and outside the step (at every frame boundary) the
\* pending-removal set is empty.
C17_WorldContact == [](C17_State) /\ [][C17_Step]_vars
\* a young projectile at the failsafe height, marked in the step, is gone
\* after the update pass of a frame with dt = 0
C17_Witness ==
    /\ last.op = "update" /\ dt = 0 /\ pierced = {}
    /\ \E p \in DOMAIN last.b : p \notin ActiveIds /\ last.b[p] = FailsafeY
    /\ projectilesToRemove = {}

\* the equation pairs a registered projectile with a registered, alive target
C18_Piercing(eq) ==
    \/ IsProjectile(eq.bi) /\ IsAliveTarget(eq.bj)
    \/ IsProjectile(eq.bj) /\ IsAliveTarget(eq.bi)
\* C18 (pre-solve filtering): after the preSolve listener has processed a
\* list of contact equations, every equation that pairs a registered
\* projectile with a registered (alive) target, in either order, is disabled,
\* and every other equation (projectile with world, projectile with a target
\* already destroyed, no projectile, a body missing) has the enabled flag it
\* came with; no equation's bodies change.
C18_PreSolveFiltering ==
    last.op = "preSolve" =>
        /\ Len(contactEquations) = Len(last.a)
        /\ \A k \in 1..Len(last.a) :
              /\ contactEquations[k].bi = last.a[k].bi
              /\ contactEquations[k].bj = last.a[k].bj
              /\ contactEquations[k].enabled =
                    (IF C18_Piercing(last.a[k]) THEN FALSE ELSE last.a[k].enabled)
\* an enabled equation (target, projectile) came out disabled, while a
\* target destroyed earlier in the step exists
C18_Witness ==
    /\ last.op = "preSolve"
    /\ \E k \in 1..Len(last.a) :
          /\ last.a[k].enabled /\ ~contactEquations[k].enabled
          /\ IsAliveTarget(last.a[k].bi) /\ IsProjectile(last.a[k].bj)
    /\ AliveCount < Len(targets)

\* everything the handlers write, the notifications aside
programState ==
    <<gameState, timeRemainingSec, score, endOverlay, fireDisabled, projectiles,
      projectileByBodyId, projectilesToRemove, targets, targetByBodyId, platforms,
      worldBodyIds, bodies, nextBodyId, collaborators>>

\* the event names no registered projectile whose other body is an alive
\* registered target or a known world body
C19_Stale(a, b) ==
    \A p \in {a, b} :
        IsProjectile(p) => (~IsAliveTarget(Other(p, a, b)) /\ Other(p, a, b) \notin worldBodyIds)
C19_Step ==
    (last'.op = "contact" /\ C19_Stale(last'.a, last'.b)) =>
        (programState' = programState /\ out' = <<>>)
\* C19 (stale references are ignored): a begin-contact event in which neither
\* body is a registered projectile, or in which the body the projectile
\* touches is neither an alive registered target nor a known world body,
\* changes nothing: score, alive flags, pending-removal set, registries,
\* physics world and session state stay as they were and nothing is notified.
C19_StaleIgnored == [][C19_Step]_vars
\* the event paired a registered projectile with a target destroyed before
C19_Witness ==
    /\ last.op = "contact" /\ pc = "idle"
    /\ \E p \in {last.a, last.b} :
          /\ IsProjectile(p)
          /\ \E i \in 1..Len(targets) :
                targets[i].id = Other(p, last.a, last.b) /\ ~targets[i].alive
    /\ score = SCORE_PER_TARGET /\ out = <<>>

C20_Step ==
    (last'.op = "fire" /\ collaborators # Collaborators) =>
        (programState' = programState /\ out' = <<>>)
\* C20 (missing collaborators): a fire request made while the scene, the
\* world, the camera or the player does not exist creates no projectile and
\* leaves the registries, the physics world and the session state as they were.
C20_MissingCollaborators == [][C20_Step]_vars
\* fire was requested while Playing, with the scene, camera and player built
\* and the world not yet
C20_Witness ==
    /\ last.op = "fire" /\ last.a = {"scene", "camera", "player"}
    /\ gameState = "playing" /\ projectiles = <<>> /\ bodies = EmptyMap

\* C26 (target registry consistency): a body id is a key of the target
\* id-lookup map exactly when a record of the targets array with that id is
\* alive, and the entry is that record; this holds between any two handlers,
\* so the flag flip and the deletion of the entry are never seen apart.
C26_RegistryConsistency ==
    /\ DOMAIN targetByBodyId = AliveIds
    /\ \A k \in DOMAIN targetByBodyId : targetByBodyId[k] = k
    /\ \A i, j \in 1..Len(targets) : targets[i].id = targets[j].id => i = j
\* inside a step, after a contact: one target destroyed (in the array, not
\* alive, no entry) next to one alive (with its entry)
C26_Witness ==
    /\ last.op = "contact" /\ pc = "step"
    /\ \E i, j \in 1..Len(targets) :
          /\ ~targets[i].alive /\ targets[i].id \notin DOMAIN targetByBodyId
          /\ targets[j].alive /\ targets[j].id \in DOMAIN targetByBodyId

C28_Step ==
    /\ IsUpdateStep =>
          \A j \in 1..Len(projectiles') :
              \E i \in 1..Len(projectiles) :
                  /\ projectiles[i].id = projectiles'[j].id
                  /\ projectiles'[j].age = projectiles[i].age + dt
    /\ IsTickStep =>
          /\ timeRemainingSec' <= timeRemainingSec
          /\ timeRemainingSec - timeRemainingSec' <= dt
          /\ gameState' = "playing" => timeRemainingSec' = timeRemainingSec - dt
    /\ (pc = "step" \/ pc = "timer") => dt' = dt
\* C28 (frame delta clamp): the delta a frame draws is clamped to 0.05 s and
\* stays the same through the physics step, the update pass and the timer
\* block; the update pass ages every kept projectile by exactly that delta and
\* the timer block lowers timeRemaining by at most that delta, whatever the
\* clock returned.
C28_DeltaClamp == [](dt \in 0..MAX_DT) /\ [][C28_Step]_vars
\* a frame of the full 0.05 s (the cap) found the timer at the time limit and
\* left it at 0, a decrease of less than the delta
C28_Witness ==
    /\ last.op = "tick" /\ dt = MAX_DT
    /\ last.a = TIME_LIMIT_SEC /\ timeRemainingSec = 0
    /\ gameState = "ended" /\ endOverlay.reason = "timeout"

C30_Step ==
    (IsFireStep /\ gameState = "playing" /\ collaborators = Collaborators) =>
        LET id == nextBodyId IN
        /\ id \notin DOMAIN bodies
        /\ id \notin DOMAIN projectileByBodyId /\ id \notin DOMAIN targetByBodyId
        /\ id \notin worldBodyIds
        /\ projectiles' = Append(projectiles, [id |-> id, age |-> 0])
        /\ projectileByBodyId' = MapSet(projectileByBodyId, id, id)
        /\ id \in DOMAIN bodies'
        /\ projectilesToRemove' = projectilesToRemove /\ id \notin projectilesToRemove'
        /\ targets' = targets /\ targetByBodyId' = targetByBodyId
        /\ score' = score /\ timeRemainingSec' = timeRemainingSec
        /\ gameState' = gameState
\* C30 (spawn): a fire request made while Playing, with the scene, world,
\* camera and player present, appends exactly one projectile of age 0 under an
\* id no body had, enters it in the id-lookup map and not in the
\* pending-removal set, and leaves the other projectiles, the targets, the
\* score and the timer as they were; no request is refused for the number or
\* the age of the projectiles in flight.
C30_Spawn == [][C30_Step]_vars
\* three requests in a row, no frame between them: three projectiles of age 0
C30_Witness ==
    /\ last.op = "fire" /\ gameState = "playing"
    /\ Len(projectiles) >= 3
    /\ \A i \in 1..Len(projectiles) : projectiles[i].age = 0

\* a configuration was applied by this step: by the load or by the panel
IsApplyStep == last'.op \in {"load", "config"}
\* the configuration the step applied: the defaults when the fetch failed or
\* the configuration is null
AppliedConfig ==
    IF last'.op = "load" /\ ~last'.b THEN DEFAULT_GAME_CONFIG
    ELSE IF last'.a.isNull THEN DEFAULT_GAME_CONFIG
    ELSE last'.a
\* a distance field that carries a number (a numeric string counts as one)
IsDistance(v) == v.k \in {"num", "str"}
C24_Step ==
    (IsApplyStep /\ AppliedConfig.legacy = {}) =>
        LET cfg == AppliedConfig
            g == cfg.gravity
            minWanted == IF IsDistance(cfg.minDistance) THEN cfg.minDistance.v
                         ELSE params.targetMinDistance
            maxWanted == IF IsDistance(cfg.maxDistance) THEN cfg.maxDistance.v
                         ELSE params.targetMaxDistance
        IN /\ params'.projectileSpeed =
                 IF isFiniteNumber(cfg.initialSpeed) /\ cfg.initialSpeed.v > 0
                 THEN cfg.initialSpeed.v ELSE params.projectileSpeed
           /\ params'.trajectorySegmentLength =
                 IF isFiniteNumber(cfg.segmentLength) /\ cfg.segmentLength.v > 0
                 THEN cfg.segmentLength.v ELSE params.trajectorySegmentLength
           /\ params'.trajectoryMaxTimeSec =
                 IF isFiniteNumber(cfg.maxTimeSec) /\ cfg.maxTimeSec.v > 0
                 THEN cfg.maxTimeSec.v ELSE params.trajectoryMaxTimeSec
           /\ params'.trajectoryMaxPoints =
                 IF isFiniteNumber(cfg.maxPoints) /\ cfg.maxPoints.v >= MinPoints * 10
                 THEN cfg.maxPoints.v \div 10 ELSE params.trajectoryMaxPoints
           /\ params'.gravity =
                 IF isFiniteNumber(g.x) /\ isFiniteNumber(g.y) /\ isFiniteNumber(g.z)
                 THEN <<g.x.v, g.y.v, g.z.v>> ELSE params.gravity
           /\ params'.targetMinDistance = Max(MinDistanceFloor, minWanted)
           /\ params'.targetMaxDistance = Max(params'.targetMinDistance, maxWanted)
           /\ params'.projectileSpeed > 0
           /\ params'.trajectoryMaxPoints >= MinPoints
           /\ MinDistanceFloor <= params'.targetMinDistance
           /\ params'.targetMinDistance <= params'.targetMaxDistance
\* C24 (configuration fallback): applying a configuration sets every
\* parameter whose field is valid to the field's value (maxPoints floored, the
\* minimum distance raised to 0.1, the maximum distance raised to the minimum)
\* and leaves every parameter whose field is missing or malformed (not a
\* finite number; a speed, segment length or time not above 0; maxPoints below
\* 4; a gravity with a non-finite component) at the value it had; afterwards
\* the speed is positive, maxPoints is at least 4 and
\* 0.1 <= minDistance <= maxDistance.
C24_ConfigFallback == [][C24_Step]_vars

\* init() has just finished: the world, the platforms and the targets are built
IsSessionStart == last'.op = "init" /\ collaborators' = Collaborators
C25_Step ==
    (/\ IsSessionStart \/ IsResetStep
     /\ isFiniteNumber(gameConfig'.timeLimitSec)
     /\ gameConfig'.timeLimitSec.v > 0) =>
        timeRemainingSec' = gameConfig'.timeLimitSec.v
\* C25 (configured time limit): when the loaded configuration carries a
\* valid session.timeLimitSec, timeRemaining equals that value when init() has
\* built the session and after every reset.
C25_ConfiguredTimeLimit == [][C25_Step]_vars

IsConfigStep == last'.op = "config"
TargetIds == {targets[i].id : i \in 1..Len(targets)}
C27_OriginalStep ==
    (AliveIds' \ AliveIds # {} \/ AliveCount' > AliveCount) =>
        (IsSessionStart \/ IsResetStep)
\* C27 as claimed (targets are created only at session start and by reset):
\* a step that creates a target or raises the number of alive targets is the
\* end of init() or a reset.
C27_CreatedOnlyAtReset == [][C27_OriginalStep]_vars
C27_Step ==
    /\ (AliveIds' \ AliveIds # {} \/ AliveCount' > AliveCount) =>
           (IsSessionStart \/ IsResetStep \/ IsConfigStep)
    /\ IsConfigStep =>
           /\ AliveCount' = NumTargets
           /\ Len(targets') = NumTargets
           /\ AliveIds' \cap TargetIds = {}
           /\ score' = score /\ gameState' = gameState
           /\ timeRemainingSec' = timeRemainingSec /\ endOverlay' = endOverlay
\* C27 (amended): targets are created at session start, by reset and by every
\* configuration applied once the world exists, which replaces all targets by
\* a full batch of new alive ones and leaves the score, the timer and the
\* session state as they are; no other step creates a target or raises the
\* number of alive targets.
C27_CreatedAtResetOrConfig == [][C27_Step]_vars
\* both targets were destroyed and the session won; a configuration applied
\* afterwards has put a full batch of alive targets into the Ended session
C27_Witness ==
    /\ last.op = "config"
    /\ gameState = "ended" /\ endOverlay.reason = "win"
    /\ score = SCORE_PER_TARGET * NumTargets
    /\ AliveCount = NumTargets

C29_Step ==
    (IsTickStep /\ gameState = "playing" /\ AliveCount = 0) =>
        /\ gameState' = "ended"
        /\ endOverlay'.reason = "win"
        /\ Cardinality({i \in 1..Len(out') : out'[i].kind = "showEnd"}) = 1
        /\ \A i \in 1..Len(out') : out'[i].kind = "showEnd" => out'[i].reason = "win"
\* C29 (defensive per-frame win check): a timer block that finds the session
\* Playing with no target alive leaves it Ended with reason win, and notifies
\* the end exactly once, with reason win.
C29_DefensiveWinCheck == [][C29_Step]_vars
\* the frame found the session Playing with no target alive and its timer
\* block has ended it with reason win
C29_Witness ==
    /\ last.op = "tick"
    /\ frame.gameState = "playing" /\ frame.alive = 0
    /\ gameState = "ended" /\ endOverlay.reason = "win"
    /\ Cardinality(ShowEnds) = 1

\* the session init() builds, with the aim and the parameters as given
Pristine(a, p) == [InitState EXCEPT !.aim = a, !.params = p]
C22_Shape(samples) ==
    /\ trajectoryPoints = [i \in 1..Len(samples) |-> samples[i].pt]
    /\ trajectoryPoints[1] = getProjectileSpawnPosition(State, getAimDirection(State))
    /\ Len(trajectoryPoints) >= 2
    /\ Len(trajectoryPoints) <= params.trajectoryMaxPoints
    /\ \A i \in 1..(Len(trajectoryPoints) - 1) :
           trajectoryPoints[i][2] > projectileRadius \div 2
Distance(p, q) == LengthOf([k \in 1..3 |-> q[k] - p[k]])
\* C23 (adaptive spacing): with segmentLength 0.35 m and launch speed 5 m/s or
\* 40 m/s, every two consecutive points of the line are 0.35 m apart to
\* within a tenth of that.
C23_AdaptiveSpacing ==
    (/\ last.op = "trajectory"
     /\ params.trajectorySegmentLength = 3500
     /\ params.projectileSpeed \in {500, 4000}) =>
        \A i \in 1..(Len(trajectoryPoints) - 1) :
            LET d == Distance(trajectoryPoints[i], trajectoryPoints[i + 1])
            IN /\ d >= 3500 - 3500 \div 10
               /\ d <= 3500 + 3500 \div 10

\* C31 (predictor and physics agree on parameters): once the world exists its
\* gravity is the gravity vector the predictor reads, whatever configurations
\* were loaded and applied; and a projectile that is fired gets as its
\* velocity the initial velocity the predictor uses in the state it is fired
\* in (the aim direction times the launch speed).
C31_Gravity == "world" \in collaborators => worldGravity = trajectoryGravity(State)
C31_Step ==
    (last'.op = "fire" /\ Len(projectiles') = Len(projectiles) + 1) =>
        bodyVelocity'[projectiles'[Len(projectiles')].id]
            = trajectoryVelocity(State, getAimDirection(State))
C31_ParametersAgree == [](C31_Gravity) /\ [][C31_Step]_vars
\* two projectiles in flight, fired at different speeds, the second after a
\* configuration applied live changed the speed, the gravity no longer the
\* default
C31_Witness ==
    /\ last.op = "fire" /\ Len(projectiles) = 2
    /\ LengthOf(bodyVelocity[projectiles[1].id]) # LengthOf(bodyVelocity[projectiles[2].id])
    /\ params.projectileSpeed \notin {DefaultParams.projectileSpeed, gameConfig.initialSpeed.v}
    /\ worldGravity # DefaultParams.gravity

C32_Step ==
    IsUpdateStep =>
        LET ys == last'.b
            aged == [i \in 1..Len(projectiles) |-> [projectiles[i] EXCEPT !.age = @ + dt]]
            Kept(q) == ~(\/ q.age > projectileMaxAgeSec
                         \/ q.id \in projectilesToRemove
                         \/ ys[q.id] < FailsafeY)
            kept == SelectSeq(aged, Kept)
            keptIds == {kept[i].id : i \in 1..Len(kept)}
        IN /\ projectiles' = kept
           /\ DOMAIN projectileByBodyId' = keptIds
           /\ DOMAIN bodies' = (DOMAIN bodies) \ (ActiveIds \ keptIds)
\* C32 (update pass completeness): one update pass leaves exactly the
\* projectiles that were active at its start and satisfy no removal trigger
\* (age plus dt above the maximum, a pending-removal mark, a height below the
\* failsafe), in their order, each aged by dt once; the others are gone from
\* the list, the id-lookup map and the physics world, and no other body is.
C32_PassComplete == [][C32_Step]_vars
\* a pass with a positive delta removed a projectile that stood between two
\* it kept
C32_Witness ==
    /\ last.op = "update" /\ dt > 0
    /\ \E q \in (DOMAIN last.b) \ ActiveIds :
          \E a, b \in ActiveIds : a < q /\ q < b

\* C33 (every projectile is eventually removed): with frames that keep coming
\* with a positive delta, every projectile in the active list leaves it, in a
\* Playing and in an Ended session alike; and no projectile in the list is
\* older than the maximum age, so it leaves at the latest in the pass that
\* takes its age past the maximum.
C33_EventuallyRemoved ==
    /\ [](\A i \in 1..Len(projectiles) : projectiles[i].age <= projectileMaxAgeSec)
    /\ \A id \in InitState.nextBodyId..MaxBodyId :
          (id \in ActiveIds) ~> (id \notin ActiveIds)
\* a frame that began in the Ended session, with a positive delta, removed
\* the last projectile in flight
C33_Witness ==
    /\ pc = "timer" /\ frame.gameState = "ended" /\ dt > 0
    /\ projectiles = <<>>
    /\ \E id \in DOMAIN stepBodies : stepBodies[id].group = CG_PROJECTILE

\* C34 (pending-removal markers are never dangling): every id in the
\* pending-removal set is the id of a projectile in the active list, after
\* any sequence of contacts, removals (by index, whatever the trigger) and
\* resets.
C34_NoDanglingMarker == projectilesToRemove \subseteq ActiveIds
\* a reset found a marked projectile in flight and left neither projectile
\* nor mark
C34_Witness ==
    /\ last.op = "reset" /\ last.b = 1 /\ Cardinality(last.a) = 1
    /\ projectilesToRemove = {} /\ projectiles = <<>>

C35_Step == (gameState = "ended" /\ gameState' = "ended") => score' = score
\* C35 (score is frozen while Ended): while the session is Ended the score is
\* the finalScore the end-of-session notification delivered, and no step that
\* leaves the session Ended changes it.
C35_ScoreFrozen ==
    /\ [](gameState = "ended" => score = endOverlay.finalScore)
    /\ [][C35_Step]_vars

\* C36 (Playing implies a live target): at every frame boundary of the
\* session init() has built, a Playing session has at least one target alive,
\* and a session Ended by win has none.
C36_LiveTarget ==
    (collaborators = Collaborators /\ pc = "idle") =>
        /\ gameState = "playing" => AliveCount >= 1
        /\ (gameState = "ended" /\ endOverlay.reason = "win") => AliveCount = 0

CollisionGroups == {CG_PROJECTILE, CG_TARGET, CG_WORLD}
GroupOf(id) == stepBodies[id].group
\* C37 (collision filtering): the three groups are disjoint bit values; every
\* body of the world carries exactly one of them, the one of the registry it
\* is in (projectile, alive target, world geometry); and among the bodies a
\* physics step works on, the group/mask rule (symmetric, so each unordered
\* pair is looked at once) admits a pair exactly when it is a projectile with
\* a target or a projectile with a world body.
C37_CollisionFiltering ==
    /\ \A g, h \in CollisionGroups : g # h => BitAnd(g, h) = 0
    /\ \A id \in DOMAIN bodies :
          /\ bodies[id].group \in CollisionGroups
          /\ (bodies[id].group = CG_PROJECTILE) = (id \in DOMAIN projectileByBodyId)
          /\ (bodies[id].group = CG_TARGET) = (id \in AliveIds)
          /\ (bodies[id].group = CG_WORLD) = (id \in worldBodyIds)
    /\ \A a \in DOMAIN stepBodies : \A b \in {id \in DOMAIN stepBodies : id > a} :
             (Admitted(a, b) =
                 ({GroupOf(a), GroupOf(b)} \in {{CG_PROJECTILE, CG_TARGET},
                                                {CG_PROJECTILE, CG_WORLD}}))
\* a physics step works on two projectiles, a target, the ground and a
\* platform
C37_Witness ==
    /\ pc = "step"
    /\ Cardinality({id \in DOMAIN stepBodies : GroupOf(id) = CG_PROJECTILE}) >= 2
    /\ Cardinality({id \in DOMAIN stepBodies : GroupOf(id) = CG_WORLD}) >= 2
    /\ \E id \in DOMAIN stepBodies : GroupOf(id) = CG_TARGET

TypeOK ==
    /\ gameState \in {"playing", "ended"}
    /\ pc \in {"idle", "step", "timer"}
====
